---- MODULE Spec2Model ----
(***************************************************************************)
(* Model of the SEV-Step userland library (sev_step_lib): the shared       *)
(* mailbox with its spinlock, the Connection's poll_event /                *)
(* block_untill_event / ack_event, and TargetedStepper::run on top of it.  *)
(* The user thread is a program counter `pc` over the statements of these  *)
(* functions plus a return stack; the driver, the trigger thread, the      *)
(* abort sender and the clock are concurrent processes.                    *)
(***************************************************************************)
EXTENDS Integers, Sequences, FiniteSets, TLC

(* ------------------------------ bounds --------------------------------- *)
\* largest timeout a caller passes, in clock ticks
MaxTimeout == 1
\* largest retired_instructions value the driver reports
MaxRetired == 2
\* number of distinct guest-physical addresses the driver reports
MaxGpa == 2
\* number of handlers in the TargetedStepper chain
NumHandlers == 2
\* number of initially tracked pages of a TargetedStepper
NumInitialGpas == 2

\* largest step count a SkipUntilNSingleSteps or StopAfterNSingleStepsHandler
\* is built with
MaxWanted == 1
\* number of open/release repetitions of SetupTeardownTest (10 in the test)
MaxRepetitions == 3
\* largest number of step events a step-counting handler is given
MaxEvents == 5
\* largest max_iterations of a RetrackGPASet
MaxIterations == 2
\* SkipUntilNSingleSteps::ZERO_STEP_ABORT_THRESH
ZERO_STEP_ABORT_THRESH == 10

(* ------------------------------ values --------------------------------- *)
NoTimeout == [some |-> FALSE]
SomeTimeout(v) == [some |-> TRUE, v |-> v]
Timeouts == {NoTimeout} \cup {SomeTimeout(v) : v \in 0..MaxTimeout}

NoEvent == [kind |-> "None"]
PageFaultEvent(gpa) == [kind |-> "PageFaultEvent", faulted_gpa |-> gpa]
SevStepEvent(n) == [kind |-> "StepEvent", retired_instructions |-> n]

\* what the driver can write into event_type / event_buffer
Payloads ==
  {[event_type |-> "PAGE_FAULT_EVENT", event_buffer |-> g] : g \in 1..MaxGpa}
    \cup {[event_type |-> "SEV_STEP_EVENT", event_buffer |-> n] : n \in 0..MaxRetired}

VARIABLES
  shared_mem_region,   \* [spinlock, event_acked, have_event, event_type, event_buffer]
  holders,             \* who is inside lock()..unlock(): subset of {"user", "driver"}
  drv,                 \* driver position: "idle" | "locked"
  abort_queued,        \* messages waiting in the abort channel
  abort_connected,     \* the abort channel's sender still exists
  error_on_multi_step, \* SevStep.error_on_multi_step
  pc,                  \* statement the user thread is at
  stack,               \* labels to return to, innermost first
  result,              \* value the last API call returned
  last_api,            \* which API function returned `result`
  target_trigger,      \* "caller" | "noop": closure given to the current block_untill_event
  timeout,             \* timeout given to the current block_untill_event
  trig,                \* trigger thread / its channel: "none" | "running" | "ok" | "err" | "dropped"
  trigger_finished,    \* local of block_untill_event
  elapsed,             \* start_timestamp.elapsed(), saturating at MaxTimeout + 1
  decoded,             \* local `result` / `step_event` of the decode match
  first_iteration,     \* the current block_untill_event is in its first poll iteration
  have_at_entry,       \* have_event when block_untill_event was entered
  abort_at_entry,      \* an abort signal was queued when it was entered
  multi_pending,       \* event of the last MultiStep error not acknowledged since
  track_idx,           \* TargetedStepper::run: initial track_page calls made so far
  handler_idx,         \* position of `for handler in &mut self.handler_chain`
  event,               \* local `event` of TargetedStepper::run
  run_result,          \* "running" | "Ok" | "Err": what run returned
  waits,               \* block_untill_event calls made by run (saturating at 2)
  acks,                \* ack_event calls made by run since `event` was received
  invoked,             \* handlers run for `event`, in order of invocation
  skipped,             \* a handler returned SKIP for `event`
  handler_chain,       \* ComposableHandlerChain.handler_chain: the handler objects
  handler_outcome,     \* what handler.process(..) returned to ComposableHandlerChain::run
  process_event,       \* local `event` of the running ComposableEventHandler::process
  process_first_iteration, \* its local `first_iteration`
  pf_matched,          \* lengths k such that the first k expected faults are a
                       \* subsequence of the page faults that process call examined
  pf_count,            \* number of those page faults (saturating above the sequence length)
  pf_exact,            \* those page faults are, in order, a prefix of the sequence
  ctx,                 \* keys of the handler-chain context map
  chain_outcome,       \* ComposableHandlerChainOutcome that run returned
  closed,              \* Drop for SevStep has run: the Connection is closed
  ctl_calls,           \* control calls the running EventHandler::process has issued
  this_at_entry,       \* the handler object as it was when that process was called
  steps_seen,          \* retired_instructions of the step events given so far, in
                       \* order, to the step-counting handler (in a TargetedStepper
                       \* run, to its StopAfterNSingleStepsHandler)
  api_open,            \* the driver has a Connection registered (init_api .. close_api)
  connections,         \* number of SevStep objects alive
  repetition,          \* `_i` of SetupTeardownTest::run
  failed_ioctls,       \* names of the system calls that have failed so far
  second_new,          \* what a SevStep::new made while a Connection is alive returned
  driver               \* what the control calls have set up in the driver: whether
                       \* stepping is armed, and the tracked addresses

apiVars == <<shared_mem_region, holders, drv, abort_queued, abort_connected,
             error_on_multi_step, pc, stack, result, last_api, target_trigger,
             timeout, trig, trigger_finished, elapsed, decoded, first_iteration,
             have_at_entry, abort_at_entry, multi_pending>>

apiVars_but_pc == <<shared_mem_region, holders, drv, abort_queued, abort_connected,
                    error_on_multi_step, stack, result, last_api, target_trigger,
                    timeout, trig, trigger_finished, elapsed, decoded, first_iteration,
                    have_at_entry, abort_at_entry, multi_pending>>
memVars == <<shared_mem_region, holders>>
envVars == <<drv, abort_queued, abort_connected, error_on_multi_step>>
retVars == <<stack, result, last_api>>
argVars == <<target_trigger, timeout>>
bueGhost == <<first_iteration, have_at_entry, abort_at_entry>>

runVars == <<track_idx, handler_idx, event, run_result, waits, acks, invoked,
             skipped>>
\* everything above the Connection, which its functions never touch
pfGhost == <<pf_matched, pf_count, pf_exact>>
chainVars == <<handler_chain, handler_outcome, process_event,
               process_first_iteration, pfGhost, ctx, chain_outcome, closed>>
lifeVars == <<api_open, connections, repetition, failed_ioctls, second_new>>
ctlVars == <<ctl_calls, this_at_entry, steps_seen, lifeVars, driver>>
upperVars == <<runVars, chainVars, ctlVars>>

vars == <<apiVars, upperVars>>

(* --------------------------- raw_spinlock ------------------------------ *)
\* init(): *lock = 1
raw_spinlock_init(m) == [m EXCEPT !.spinlock = 1]

\* the assembly routine: spin until the word is the unlocked value, take it
raw_spinlock_lock(who) ==
  /\ shared_mem_region.spinlock = 1
  /\ shared_mem_region' = [shared_mem_region EXCEPT !.spinlock = 0]
  /\ holders' = holders \cup {who}

\* the assembly routine: store the unlocked value
raw_spinlock_unlock(who) ==
  /\ shared_mem_region' = [shared_mem_region EXCEPT !.spinlock = 1]
  /\ holders' = holders \ {who}

(* ------------------------------ SevStep -------------------------------- *)
\* SevStep::new: zeroed buffer, lock initialised, event_acked = 1, have_event = 0
NewSharedMem ==
  [raw_spinlock_init([spinlock |-> 0, event_acked |-> 0, have_event |-> 0,
                      event_type |-> "PAGE_FAULT_EVENT", event_buffer |-> 0])
     EXCEPT !.event_acked = 1, !.have_event = 0]

\* PageFaultEvent::from_c_struct / SevStepEvent::from_raw_event_buffer
Decode(m) ==
  IF m.event_type = "PAGE_FAULT_EVENT"
    THEN PageFaultEvent(m.event_buffer)
    ELSE SevStepEvent(m.event_buffer)

Res(kind, ev) == [kind |-> kind, event |-> ev]
NoResult == Res("none", NoEvent)

\* a function of SevStep returns `r` to the label on top of the stack
Return(api, r) ==
  /\ pc' = Head(stack)
  /\ stack' = Tail(stack)
  /\ result' = r
  /\ last_api' = api

\* the caller's side of a call: push the return label, jump to the entry
Call(entry, ret) ==
  /\ pc' = entry
  /\ stack' = <<ret>> \o stack
  /\ result' = NoResult

\* a call of poll_event or ack_event; the locals of the block_untill_event
\* before it no longer exist
CallNoWait(entry, ret) ==
  /\ Call(entry, ret)
  /\ trig' = "none"
  /\ trigger_finished' = FALSE
  /\ elapsed' = 0
  /\ first_iteration' = TRUE
  /\ have_at_entry' = FALSE
  /\ abort_at_entry' = FALSE

BueLabels == {"bue_spawn", "bue_abort", "bue_trigger", "bue_lock", "bue_check",
              "bue_unlock", "bue_timeout", "bue_decode", "bue_multi_unlock",
              "bue_final_unlock"}
InBue == pc \in BueLabels

(* poll_event *)
PollLock ==
  /\ pc = "poll_lock"
  /\ raw_spinlock_lock("user")
  /\ pc' = "poll_check"
  /\ UNCHANGED <<upperVars, envVars, retVars, argVars, bueGhost, trig, trigger_finished,
                 elapsed, decoded, multi_pending>>

PollCheck ==
  /\ pc = "poll_check"
  /\ pc' = IF 0 = shared_mem_region.have_event THEN "poll_unlock_none" ELSE "poll_decode"
  /\ UNCHANGED <<upperVars, memVars, envVars, retVars, argVars, bueGhost, trig,
                 trigger_finished, elapsed, decoded, multi_pending>>

PollUnlockNone ==
  /\ pc = "poll_unlock_none"
  /\ raw_spinlock_unlock("user")
  /\ Return("poll_event", Res("Nothing", NoEvent))
  /\ UNCHANGED <<upperVars, envVars, argVars, bueGhost, trig, trigger_finished, elapsed,
                 decoded, multi_pending>>

\* PollDecode taking the event out of the mailbox
PollDecode_ClearsHave ==
  /\ pc = "poll_decode"
  /\ decoded' = Decode(shared_mem_region)
  /\ shared_mem_region' = [shared_mem_region EXCEPT !.have_event = 0]
  /\ pc' = "poll_unlock_some"
  /\ UNCHANGED <<upperVars, holders, envVars, retVars, argVars, bueGhost, trig,
                 trigger_finished, elapsed, multi_pending>>

PollDecode ==
  /\ pc = "poll_decode"
  /\ decoded' = Decode(shared_mem_region)
  /\ pc' = "poll_unlock_some"
  /\ UNCHANGED <<upperVars, memVars, envVars, retVars, argVars, bueGhost, trig,
                 trigger_finished, elapsed, multi_pending>>

PollUnlockSome ==
  /\ pc = "poll_unlock_some"
  /\ raw_spinlock_unlock("user")
  /\ Return("poll_event", Res("Event", decoded))
  /\ decoded' = NoEvent
  /\ UNCHANGED <<upperVars, envVars, argVars, bueGhost, trig, trigger_finished, elapsed,
                 multi_pending>>

(* block_untill_event *)
\* bounded(1), thread::spawn, Instant::now(), trigger_finished = false
BueSpawn ==
  /\ pc = "bue_spawn"
  /\ trig' = "running"
  /\ elapsed' = 0
  /\ trigger_finished' = FALSE
  /\ first_iteration' = TRUE
  /\ have_at_entry' = (shared_mem_region.have_event = 1)
  /\ abort_at_entry' = (abort_queued > 0)
  /\ pc' = "bue_abort"
  /\ UNCHANGED <<upperVars, memVars, envVars, retVars, argVars, decoded, multi_pending>>

\* BueAbort with the abort check skipped while an event is pending
BueAbort_AfterEvent ==
  /\ pc = "bue_abort"
  /\ IF abort_queued > 0 /\ shared_mem_region.have_event = 0
       THEN /\ abort_queued' = abort_queued - 1
            /\ Return("block_untill_event", Res("Abort", NoEvent))
            /\ trig' = "none"
       ELSE /\ pc' = "bue_trigger"
            /\ UNCHANGED <<abort_queued, retVars, trig>>
  /\ UNCHANGED <<upperVars, memVars, drv, abort_connected, error_on_multi_step,
                 argVars, bueGhost, trigger_finished, elapsed, decoded,
                 multi_pending>>

\* BueAbort reading the abort channel without taking the signal out of it
BueAbort_KeepsSignal ==
  /\ pc = "bue_abort"
  /\ IF abort_queued > 0
       THEN /\ Return("block_untill_event", Res("Abort", NoEvent))
            /\ trig' = "none"
       ELSE IF ~abort_connected
         THEN /\ Return("block_untill_event", Res("AbortChannelError", NoEvent))
              /\ trig' = "none"
         ELSE /\ pc' = "bue_trigger"
              /\ UNCHANGED <<retVars, trig>>
  /\ UNCHANGED <<upperVars, memVars, envVars, argVars,
                 bueGhost, trigger_finished, elapsed, decoded, multi_pending>>

\* match self.abort.try_recv()
BueAbort ==
  /\ pc = "bue_abort"
  /\ IF abort_queued > 0
       THEN /\ abort_queued' = abort_queued - 1
            /\ Return("block_untill_event", Res("Abort", NoEvent))
            /\ trig' = "none"
       ELSE IF ~abort_connected
         THEN /\ Return("block_untill_event", Res("AbortChannelError", NoEvent))
              /\ trig' = "none"
              /\ UNCHANGED abort_queued
         ELSE /\ pc' = "bue_trigger"
              /\ UNCHANGED <<abort_queued, retVars, trig>>
  /\ UNCHANGED <<upperVars, memVars, drv, abort_connected, error_on_multi_step, argVars,
                 bueGhost, trigger_finished, elapsed, decoded, multi_pending>>

\* if !trigger_finished { match trigger_result.try_recv() }
BueTrigger ==
  /\ pc = "bue_trigger"
  /\ IF trigger_finished \/ trig = "running"
       THEN /\ pc' = "bue_lock"
            /\ UNCHANGED <<retVars, trig, trigger_finished>>
       ELSE IF trig \in {"ok", "err"}
         THEN /\ trigger_finished' = TRUE
              /\ pc' = "bue_lock"
              /\ UNCHANGED <<retVars, trig>>
         ELSE /\ Return("block_untill_event", Res("TriggerFailed", NoEvent))
              /\ UNCHANGED <<trig, trigger_finished>>
  /\ UNCHANGED <<upperVars, memVars, envVars, argVars, bueGhost, elapsed, decoded,
                 multi_pending>>

BueLock ==
  /\ pc = "bue_lock"
  /\ raw_spinlock_lock("user")
  /\ pc' = "bue_check"
  /\ UNCHANGED <<upperVars, envVars, retVars, argVars, bueGhost, trig, trigger_finished,
                 elapsed, decoded, multi_pending>>

\* if 1 == have_event { break }
BueCheck ==
  /\ pc = "bue_check"
  /\ pc' = IF 1 = shared_mem_region.have_event THEN "bue_decode" ELSE "bue_unlock"
  /\ UNCHANGED <<upperVars, memVars, envVars, retVars, argVars, bueGhost, trig,
                 trigger_finished, elapsed, decoded, multi_pending>>

BueUnlock ==
  /\ pc = "bue_unlock"
  /\ raw_spinlock_unlock("user")
  /\ pc' = "bue_timeout"
  /\ UNCHANGED <<upperVars, envVars, retVars, argVars, bueGhost, trig, trigger_finished,
                 elapsed, decoded, multi_pending>>

\* TimedOut with the deadline never taken to have passed
TimedOut_Never == FALSE

\* timeout.is_some_and(|v| start_timestamp.elapsed() > v)
TimedOut == timeout.some /\ elapsed > timeout.v

BueTimeout ==
  /\ pc = "bue_timeout"
  /\ IF TimedOut
       THEN /\ Return("block_untill_event", Res("Timeout", NoEvent))
            /\ trig' = "none"
            /\ UNCHANGED first_iteration
       ELSE /\ pc' = "bue_abort"
            /\ first_iteration' = FALSE
            /\ UNCHANGED <<retVars, trig>>
  /\ UNCHANGED <<upperVars, memVars, envVars, argVars, have_at_entry, abort_at_entry,
                 trigger_finished, elapsed, decoded, multi_pending>>

\* IsMultiStep with >= in place of >
IsMultiStep_SingleToo(e) ==
  /\ error_on_multi_step
  /\ e.kind = "StepEvent"
  /\ e.retired_instructions >= 1

\* error_on_multi_step && step_event.retired_instructions > 1
IsMultiStep(e) ==
  /\ error_on_multi_step
  /\ e.kind = "StepEvent"
  /\ e.retired_instructions > 1

\* match self.shared_mem_region.event_type { ... }
BueDecode ==
  /\ pc = "bue_decode"
  /\ decoded' = Decode(shared_mem_region)
  /\ pc' = IF IsMultiStep(Decode(shared_mem_region))
             THEN "bue_multi_unlock" ELSE "bue_final_unlock"
  /\ UNCHANGED <<upperVars, memVars, envVars, retVars, argVars, bueGhost, trig,
                 trigger_finished, elapsed, multi_pending>>

\* BueMultiUnlock acknowledging the event it reports
BueMultiUnlock_ImplicitAck ==
  /\ pc = "bue_multi_unlock"
  /\ shared_mem_region' = [shared_mem_region EXCEPT !.spinlock = 1,
                                                    !.event_acked = 1,
                                                    !.have_event = 0]
  /\ holders' = holders \ {"user"}
  /\ Return("block_untill_event", Res("MultiStep", decoded))
  /\ multi_pending' = decoded
  /\ decoded' = NoEvent
  /\ trig' = "none"
  /\ UNCHANGED <<upperVars, envVars, argVars, bueGhost, trigger_finished, elapsed>>

\* BueMultiUnlock returning without the unlock
BueMultiUnlock_NoUnlock ==
  /\ pc = "bue_multi_unlock"
  /\ Return("block_untill_event", Res("MultiStep", decoded))
  /\ multi_pending' = decoded
  /\ decoded' = NoEvent
  /\ trig' = "none"
  /\ UNCHANGED <<upperVars, memVars, envVars, argVars, bueGhost,
                 trigger_finished, elapsed>>

\* unlock; return Err(MultiStep { event: step_event })
BueMultiUnlock ==
  /\ pc = "bue_multi_unlock"
  /\ raw_spinlock_unlock("user")
  /\ Return("block_untill_event", Res("MultiStep", decoded))
  /\ multi_pending' = decoded
  /\ decoded' = NoEvent
  /\ trig' = "none"
  /\ UNCHANGED <<upperVars, envVars, argVars, bueGhost, trigger_finished, elapsed>>

\* unlock; Ok(result)
BueFinalUnlock ==
  /\ pc = "bue_final_unlock"
  /\ raw_spinlock_unlock("user")
  /\ Return("block_untill_event", Res("Event", decoded))
  /\ decoded' = NoEvent
  /\ trig' = "none"
  /\ UNCHANGED <<upperVars, envVars, argVars, bueGhost, trigger_finished, elapsed,
                 multi_pending>>

\* AckLock going on without taking the lock
AckLock_NoLock ==
  /\ pc = "ack_lock"
  /\ pc' = "ack_set_acked"
  /\ UNCHANGED <<upperVars, memVars, envVars, retVars, argVars, bueGhost, trig,
                 trigger_finished, elapsed, decoded, multi_pending>>

(* ack_event *)
AckLock ==
  /\ pc = "ack_lock"
  /\ raw_spinlock_lock("user")
  /\ pc' = "ack_set_acked"
  /\ UNCHANGED <<upperVars, envVars, retVars, argVars, bueGhost, trig, trigger_finished,
                 elapsed, decoded, multi_pending>>

\* self.shared_mem_region.event_acked = 1
AckSetAcked ==
  /\ pc = "ack_set_acked"
  /\ shared_mem_region' = [shared_mem_region EXCEPT !.event_acked = 1]
  /\ pc' = "ack_clear_have"
  /\ UNCHANGED <<upperVars, holders, envVars, retVars, argVars, bueGhost, trig,
                 trigger_finished, elapsed, decoded, multi_pending>>

\* self.shared_mem_region.have_event = 0
AckClearHave ==
  /\ pc = "ack_clear_have"
  /\ shared_mem_region' = [shared_mem_region EXCEPT !.have_event = 0]
  /\ multi_pending' = NoEvent
  /\ pc' = "ack_unlock"
  /\ UNCHANGED <<upperVars, holders, envVars, retVars, argVars, bueGhost, trig,
                 trigger_finished, elapsed, decoded>>

AckUnlock ==
  /\ pc = "ack_unlock"
  /\ raw_spinlock_unlock("user")
  /\ Return("ack_event", Res("Unit", NoEvent))
  /\ UNCHANGED <<upperVars, envVars, argVars, bueGhost, trig, trigger_finished, elapsed,
                 decoded, multi_pending>>

PollNext ==
  PollLock \/ PollCheck \/ PollUnlockNone \/ PollDecode \/ PollUnlockSome

BueNext ==
  \/ BueSpawn \/ BueAbort \/ BueTrigger \/ BueLock \/ BueCheck \/ BueUnlock
  \/ BueTimeout \/ BueDecode \/ BueMultiUnlock \/ BueFinalUnlock

AckNext == AckLock \/ AckSetAcked \/ AckClearHave \/ AckUnlock

(* ---------------- processes running beside the user thread -------------- *)
\* the Connection exists until the run that owns it has returned
Open == pc # "done"

\* thread::spawn(move || s.send(target_trigger())): the closure returns Ok(())
TriggerOk ==
  /\ trig = "running"
  /\ trig' = "ok"
  /\ UNCHANGED <<upperVars, memVars, envVars, pc, retVars, argVars, bueGhost,
                 trigger_finished, elapsed, decoded, multi_pending>>

\* the caller's closure returns Err(_), which is sent like any other value
TriggerErr ==
  /\ trig = "running"
  /\ target_trigger = "caller"
  /\ trig' = "err"
  /\ UNCHANGED <<upperVars, memVars, envVars, pc, retVars, argVars, bueGhost,
                 trigger_finished, elapsed, decoded, multi_pending>>

\* the caller's closure panics: the sender is dropped and nothing was sent
TriggerPanic ==
  /\ trig = "running"
  /\ target_trigger = "caller"
  /\ trig' = "dropped"
  /\ UNCHANGED <<upperVars, memVars, envVars, pc, retVars, argVars, bueGhost,
                 trigger_finished, elapsed, decoded, multi_pending>>

\* the holder of the abort sender signals an abort (single-slot channel)
AbortSend ==
  /\ Open
  /\ abort_connected
  /\ abort_queued = 0
  /\ abort_queued' = 1
  /\ UNCHANGED <<upperVars, memVars, drv, abort_connected, error_on_multi_step, pc, retVars,
                 argVars, bueGhost, trig, trigger_finished, elapsed, decoded,
                 multi_pending>>

\* the holder of the abort sender drops it
AbortDisconnect ==
  /\ Open
  /\ abort_connected
  /\ abort_connected' = FALSE
  /\ UNCHANGED <<upperVars, memVars, drv, abort_queued, error_on_multi_step, pc, retVars,
                 argVars, bueGhost, trig, trigger_finished, elapsed, decoded,
                 multi_pending>>

\* wall-clock time passes while a wait with a timeout polls; the value is only
\* ever compared with timeouts <= MaxTimeout, so it saturates above that
Tick ==
  /\ InBue
  /\ timeout.some
  /\ elapsed <= MaxTimeout
  /\ elapsed' = elapsed + 1
  /\ UNCHANGED <<upperVars, memVars, envVars, pc, retVars, argVars, bueGhost, trig,
                 trigger_finished, decoded, multi_pending>>

\* the driver takes the mailbox lock
DriverLock ==
  /\ Open
  /\ drv = "idle"
  /\ raw_spinlock_lock("driver")
  /\ drv' = "locked"
  /\ UNCHANGED <<upperVars, abort_queued, abort_connected, error_on_multi_step, pc, retVars,
                 argVars, bueGhost, trig, trigger_finished, elapsed, decoded,
                 multi_pending>>

\* the driver surfaces the next event once the previous one is acknowledged
DriverPost ==
  /\ Open
  /\ drv = "locked"
  /\ shared_mem_region.event_acked = 1
  /\ \E p \in Payloads :
       shared_mem_region' = [shared_mem_region EXCEPT !.have_event = 1,
                                                      !.event_acked = 0,
                                                      !.event_type = p.event_type,
                                                      !.event_buffer = p.event_buffer]
  /\ UNCHANGED <<upperVars, holders, envVars, pc, retVars, argVars, bueGhost, trig,
                 trigger_finished, elapsed, decoded, multi_pending>>

\* the driver releases the mailbox lock
DriverUnlock ==
  /\ Open
  /\ drv = "locked"
  /\ raw_spinlock_unlock("driver")
  /\ drv' = "idle"
  /\ UNCHANGED <<upperVars, abort_queued, abort_connected, error_on_multi_step, pc, retVars,
                 argVars, bueGhost, trig, trigger_finished, elapsed, decoded,
                 multi_pending>>

EnvNext ==
  \/ TriggerOk \/ TriggerErr \/ TriggerPanic
  \/ AbortSend \/ AbortDisconnect
  \/ Tick
  \/ DriverLock \/ DriverPost \/ DriverUnlock

(* ------------- a caller using the Connection's functions directly -------- *)
ClientPoll ==
  /\ pc = "client"
  /\ CallNoWait("poll_lock", "client")
  /\ target_trigger' = "noop"
  /\ timeout' = NoTimeout
  /\ UNCHANGED <<upperVars, memVars, envVars, last_api, decoded, multi_pending>>

ClientWait ==
  /\ pc = "client"
  /\ Call("bue_spawn", "client")
  /\ target_trigger' = "caller"
  /\ timeout' \in Timeouts
  /\ UNCHANGED <<upperVars, memVars, envVars, last_api, bueGhost, trig, trigger_finished,
                 elapsed, decoded, multi_pending>>

ClientAck ==
  /\ pc = "client"
  /\ CallNoWait("ack_lock", "client")
  /\ target_trigger' = "noop"
  /\ timeout' = NoTimeout
  /\ UNCHANGED <<upperVars, memVars, envVars, last_api, decoded, multi_pending>>

ClientNext == ClientPoll \/ ClientWait \/ ClientAck

(* --------------------------- TargetedStepper::run ----------------------- *)
Bump(n) == IF n < 2 THEN n + 1 ELSE n

\* for x in self.initially_tracked_gpas { self.api.track_page(x, ..)? }
RunTrackPage ==
  /\ pc = "run_track"
  /\ track_idx < NumInitialGpas
  /\ \E ok \in BOOLEAN :
       IF ok
         THEN /\ track_idx' = track_idx + 1
              /\ UNCHANGED <<pc, run_result>>
         ELSE /\ run_result' = "Err"
              /\ pc' = "done"
              /\ UNCHANGED track_idx
  /\ UNCHANGED <<chainVars, ctlVars, apiVars_but_pc, handler_idx, event, waits, acks, invoked, skipped>>

\* let mut event = self.api.block_untill_event(self.target_trigger, self.timeout)
RunFirstWait ==
  /\ pc = "run_track"
  /\ track_idx = NumInitialGpas
  /\ Call("bue_spawn", "run_got_event")
  /\ target_trigger' = "caller"
  /\ waits' = Bump(waits)
  /\ UNCHANGED <<chainVars, ctlVars, memVars, envVars, last_api, timeout, bueGhost, trig,
                 trigger_finished, elapsed, decoded, multi_pending,
                 track_idx, handler_idx, event, run_result, acks, invoked, skipped>>

\* the `?` after block_untill_event, and the entry of `for handler in ..`
RunGotEvent ==
  /\ pc = "run_got_event"
  /\ IF result.kind = "Event"
       THEN /\ event' = result.event
            /\ handler_idx' = 1
            /\ acks' = 0
            /\ invoked' = <<>>
            /\ skipped' = FALSE
            /\ pc' = "run_handler"
            /\ UNCHANGED run_result
       ELSE /\ run_result' = "Err"
            /\ pc' = "done"
            /\ UNCHANGED <<event, handler_idx, acks, invoked, skipped>>
  /\ UNCHANGED <<chainVars, ctlVars, apiVars_but_pc, track_idx, waits>>

\* handler.process(..)? returned NEXT
RunHandlerNext ==
  /\ pc = "run_handler"
  /\ invoked' = Append(invoked, handler_idx)
  /\ handler_idx' = handler_idx + 1
  /\ pc' = IF handler_idx < NumHandlers THEN "run_handler" ELSE "run_ack"
  /\ UNCHANGED <<chainVars, ctlVars, apiVars_but_pc, track_idx, event, run_result, waits, acks, skipped>>

\* RunHandlerSkip without the break: the loop goes on after the ack
RunHandlerSkip_NoBreak ==
  /\ pc = "run_handler"
  /\ invoked' = Append(invoked, handler_idx)
  /\ skipped' = TRUE
  /\ acks' = acks + 1
  /\ handler_idx' = handler_idx + 1
  /\ CallNoWait("ack_lock", IF handler_idx < NumHandlers THEN "run_handler" ELSE "run_ack")
  /\ UNCHANGED <<chainVars, ctlVars, memVars, envVars, last_api, argVars, decoded, multi_pending,
                 track_idx, event, run_result, waits>>

\* handler.process(..)? returned SKIP: self.api.ack_event(); break
RunHandlerSkip ==
  /\ pc = "run_handler"
  /\ invoked' = Append(invoked, handler_idx)
  /\ skipped' = TRUE
  /\ acks' = acks + 1
  /\ CallNoWait("ack_lock", "run_ack")
  /\ UNCHANGED <<chainVars, ctlVars, memVars, envVars, last_api, argVars, decoded, multi_pending,
                 track_idx, handler_idx, event, run_result, waits>>

\* RunHandlerShutdown returning without the ack_event call
RunHandlerShutdown_NoAck ==
  /\ pc = "run_handler"
  /\ invoked' = Append(invoked, handler_idx)
  /\ pc' = "run_return_ok"
  /\ UNCHANGED <<chainVars, ctlVars, apiVars_but_pc, track_idx, handler_idx, event, run_result,
                 waits, acks, skipped>>

\* handler.process(..)? returned SHUTDOWN: self.api.ack_event(); return Ok(())
RunHandlerShutdown ==
  /\ pc = "run_handler"
  /\ invoked' = Append(invoked, handler_idx)
  /\ acks' = acks + 1
  /\ CallNoWait("ack_lock", "run_return_ok")
  /\ UNCHANGED <<chainVars, ctlVars, memVars, envVars, last_api, argVars, decoded, multi_pending,
                 track_idx, handler_idx, event, run_result, waits, skipped>>

RunReturnOk ==
  /\ pc = "run_return_ok"
  /\ run_result' = "Ok"
  /\ pc' = "done"
  /\ UNCHANGED <<chainVars, ctlVars, apiVars_but_pc, track_idx, handler_idx, event, waits, acks,
                 invoked, skipped>>

\* handler.process(..)? failed, or returned ErrorShutdown(message): return Err
RunHandlerError ==
  /\ pc = "run_handler"
  /\ invoked' = Append(invoked, handler_idx)
  /\ run_result' = "Err"
  /\ pc' = "done"
  /\ UNCHANGED <<chainVars, ctlVars, apiVars_but_pc, track_idx, handler_idx, event, waits, acks, skipped>>

\* after the for loop: self.api.ack_event()
RunAck ==
  /\ pc = "run_ack"
  /\ acks' = acks + 1
  /\ CallNoWait("ack_lock", "run_wait")
  /\ UNCHANGED <<chainVars, ctlVars, memVars, envVars, last_api, argVars, decoded, multi_pending,
                 track_idx, handler_idx, event, run_result, waits, invoked, skipped>>

\* RunWait handing the caller's trigger to a later wait
RunWait_CallerTrigger ==
  /\ pc = "run_wait"
  /\ Call("bue_spawn", "run_got_event")
  /\ target_trigger' = "caller"
  /\ waits' = Bump(waits)
  /\ UNCHANGED <<chainVars, ctlVars, memVars, envVars, last_api, timeout, bueGhost, trig,
                 trigger_finished, elapsed, decoded, multi_pending,
                 track_idx, handler_idx, event, run_result, acks, invoked, skipped>>

\* event = self.api.block_untill_event(|| Ok(()), self.timeout)?
RunWait ==
  /\ pc = "run_wait"
  /\ Call("bue_spawn", "run_got_event")
  /\ target_trigger' = "noop"
  /\ waits' = Bump(waits)
  /\ UNCHANGED <<chainVars, ctlVars, memVars, envVars, last_api, timeout, bueGhost, trig,
                 trigger_finished, elapsed, decoded, multi_pending,
                 track_idx, handler_idx, event, run_result, acks, invoked, skipped>>

RunNext ==
  \/ RunTrackPage \/ RunFirstWait \/ RunGotEvent
  \/ RunHandlerNext \/ RunHandlerSkip \/ RunHandlerShutdown \/ RunReturnOk
  \/ RunHandlerError \/ RunAck \/ RunWait

(* --------------------- composable event handlers ----------------------- *)
SequenceMatchingStrategy == {"StrictWithReset", "StrictWithAbort", "Scattered"}

\* SkipUntilPageFaultSequence::new
NewSkipUntilPageFaultSequence(pf_sequence, matching) ==
  [kind |-> "SkipUntilPageFaultSequence", idx_next_pf |-> 0,
   pf_sequence |-> pf_sequence, matching |-> matching]

\* SkipUntilNSingleSteps::new, with expected_rip_values = None
NewSkipUntilNSingleSteps(wanted_step_count) ==
  [kind |-> "SkipUntilNSingleSteps", step_counter |-> 0,
   wanted_step_count |-> wanted_step_count, consecutive_zero_steps |-> 0]

\* ClosureAdapterHandler::new
NewClosureAdapterHandler == [kind |-> "ClosureAdapterHandler"]

StateMachineNextAction == {"NEXT", "SKIP", "SHUTDOWN", "ErrorShutdown"}

\* Ok(EventHandlerOutcome { pending_event, next_action }) / Err(_) / not returned
EventHandlerOutcome(e, a) == [kind |-> "Ok", pending_event |-> e, next_action |-> a]
ProcessFailed == [kind |-> "Err", pending_event |-> NoEvent, next_action |-> "none"]
NoOutcome == [kind |-> "none", pending_event |-> NoEvent, next_action |-> "none"]

\* no handler object
NoHandler == [kind |-> "none"]

\* the handler object whose process is running
this == handler_chain[handler_idx]

\* the prefixes of `seq` that are subsequences of a fault stream, after one more
\* fault at `gpa`: every prefix that was one, and each of those extended by gpa
Extend(matched, seq, gpa) ==
  matched \cup {k + 1 : k \in {j \in matched : j < Len(seq) /\ seq[j + 1] = gpa}}

\* PfsStep with StrictWithReset comparing the discarded fault with the first element
PfsStep_ResetRecompares(h, gpa) ==
  IF h.idx_next_pf >= Len(h.pf_sequence)
    THEN [h |-> h, ends |-> "panic"]
    ELSE LET expected_gpa == h.pf_sequence[h.idx_next_pf + 1]
             h2 == IF gpa = expected_gpa
                     THEN [h EXCEPT !.idx_next_pf = h.idx_next_pf + 1]
                     ELSE IF h.matching = "StrictWithReset"
                       THEN [h EXCEPT !.idx_next_pf =
                                        IF gpa = h.pf_sequence[1] THEN 1 ELSE 0]
                       ELSE h
         IN IF gpa # expected_gpa /\ h.matching = "StrictWithAbort"
              THEN [h |-> h, ends |-> "ErrorShutdown"]
              ELSE [h |-> h2,
                    ends |-> IF h2.idx_next_pf = Len(h2.pf_sequence)
                               THEN "NEXT" ELSE "continue"]

\* PfsStep with Scattered resetting the progress as StrictWithReset does
PfsStep_ScatteredResets(h, gpa) ==
  IF h.idx_next_pf >= Len(h.pf_sequence)
    THEN [h |-> h, ends |-> "panic"]
    ELSE LET expected_gpa == h.pf_sequence[h.idx_next_pf + 1]
             h2 == IF gpa = expected_gpa
                     THEN [h EXCEPT !.idx_next_pf = h.idx_next_pf + 1]
                     ELSE IF h.matching \in {"StrictWithReset", "Scattered"}
                       THEN [h EXCEPT !.idx_next_pf = 0]
                       ELSE h
         IN IF gpa # expected_gpa /\ h.matching = "StrictWithAbort"
              THEN [h |-> h, ends |-> "ErrorShutdown"]
              ELSE [h |-> h2,
                    ends |-> IF h2.idx_next_pf = Len(h2.pf_sequence)
                               THEN "NEXT" ELSE "continue"]

\* PfsStep with StrictWithAbort ignoring an unexpected fault as Scattered does
PfsStep_AbortIgnores(h, gpa) ==
  IF h.idx_next_pf >= Len(h.pf_sequence)
    THEN [h |-> h, ends |-> "panic"]
    ELSE LET expected_gpa == h.pf_sequence[h.idx_next_pf + 1]
             h2 == IF gpa = expected_gpa
                     THEN [h EXCEPT !.idx_next_pf = h.idx_next_pf + 1]
                     ELSE IF h.matching = "StrictWithReset"
                       THEN [h EXCEPT !.idx_next_pf = 0]
                       ELSE h
         IN [h |-> h2,
             ends |-> IF h2.idx_next_pf = Len(h2.pf_sequence)
                        THEN "NEXT" ELSE "continue"]

\* PfsStep with StrictWithReset keeping the progress as Scattered does
PfsStep_ResetKeeps(h, gpa) ==
  IF h.idx_next_pf >= Len(h.pf_sequence)
    THEN [h |-> h, ends |-> "panic"]
    ELSE LET expected_gpa == h.pf_sequence[h.idx_next_pf + 1]
             h2 == IF gpa = expected_gpa
                     THEN [h EXCEPT !.idx_next_pf = h.idx_next_pf + 1]
                     ELSE h
         IN IF gpa # expected_gpa /\ h.matching = "StrictWithAbort"
              THEN [h |-> h, ends |-> "ErrorShutdown"]
              ELSE [h |-> h2,
                    ends |-> IF h2.idx_next_pf = Len(h2.pf_sequence)
                               THEN "NEXT" ELSE "continue"]

\* one pass of SkipUntilPageFaultSequence's loop body over a page fault at `gpa`:
\* the handler afterwards and how the pass ends
PfsStep(h, gpa) ==
  IF h.idx_next_pf >= Len(h.pf_sequence)
    THEN [h |-> h, ends |-> "panic"]
    ELSE LET expected_gpa == h.pf_sequence[h.idx_next_pf + 1]
             h2 == IF gpa = expected_gpa
                     THEN [h EXCEPT !.idx_next_pf = h.idx_next_pf + 1]
                     ELSE IF h.matching = "StrictWithReset"
                       THEN [h EXCEPT !.idx_next_pf = 0]
                       ELSE h
         IN IF gpa # expected_gpa /\ h.matching = "StrictWithAbort"
              THEN [h |-> h, ends |-> "ErrorShutdown"]
              ELSE [h |-> h2,
                    ends |-> IF h2.idx_next_pf = Len(h2.pf_sequence)
                               THEN "NEXT" ELSE "continue"]

\* the passes of SkipUntilPageFaultSequence's loop over the page faults `faults`,
\* one after the other, up to the first pass that leaves the loop
RECURSIVE PfsFeed(_, _)
PfsFeed(h, faults) ==
  IF faults = <<>>
    THEN [h |-> h, ends |-> "continue"]
    ELSE LET r == PfsStep(h, Head(faults))
         IN IF r.ends = "continue" THEN PfsFeed(r.h, Tail(faults)) ELSE r

\* one pass of SkipUntilNSingleSteps's loop body over a step event
\* NssStep giving up when the consecutive count reaches the threshold
NssStep_AtThreshold(h, retired_instructions) ==
  IF retired_instructions = 0
    THEN LET h2 == [h EXCEPT !.consecutive_zero_steps = h.consecutive_zero_steps + 1]
         IN [h |-> h2,
             ends |-> IF h2.consecutive_zero_steps >= ZERO_STEP_ABORT_THRESH
                        THEN "ErrorShutdown" ELSE "continue"]
    ELSE LET h2 == [h EXCEPT !.consecutive_zero_steps = 0,
                             !.step_counter = h.step_counter + 1]
         IN [h |-> h2,
             ends |-> IF h2.step_counter = h2.wanted_step_count
                        THEN "NEXT" ELSE "continue"]

\* NssStep comparing the counter with the wanted count before incrementing it
NssStep_TestsBeforeCounting(h, retired_instructions) ==
  IF retired_instructions = 0
    THEN LET h2 == [h EXCEPT !.consecutive_zero_steps = h.consecutive_zero_steps + 1]
         IN [h |-> h2,
             ends |-> IF h2.consecutive_zero_steps > ZERO_STEP_ABORT_THRESH
                        THEN "ErrorShutdown" ELSE "continue"]
    ELSE LET h2 == [h EXCEPT !.consecutive_zero_steps = 0,
                             !.step_counter = h.step_counter + 1]
         IN [h |-> h2,
             ends |-> IF h.step_counter = h.wanted_step_count
                        THEN "NEXT" ELSE "continue"]

NssStep(h, retired_instructions) ==
  IF retired_instructions = 0
    THEN LET h2 == [h EXCEPT !.consecutive_zero_steps = h.consecutive_zero_steps + 1]
         IN [h |-> h2,
             ends |-> IF h2.consecutive_zero_steps > ZERO_STEP_ABORT_THRESH
                        THEN "ErrorShutdown" ELSE "continue"]
    ELSE LET h2 == [h EXCEPT !.consecutive_zero_steps = 0,
                             !.step_counter = h.step_counter + 1]
         IN [h |-> h2,
             ends |-> IF h2.step_counter = h2.wanted_step_count
                        THEN "NEXT" ELSE "continue"]

\* api.ack_event() inside a handler's loop
HandlerAck(at, ret) ==
  /\ pc = at
  /\ ~process_first_iteration
  /\ acks' = acks + 1
  /\ CallNoWait("ack_lock", ret)
  /\ UNCHANGED <<ctlVars, memVars, envVars, last_api, argVars, decoded, multi_pending,
                 track_idx, handler_idx, event, run_result, waits, invoked, skipped,
                 chainVars>>

\* the else branch: first_iteration = false
HandlerFirst(at, to) ==
  /\ pc = at
  /\ process_first_iteration
  /\ process_first_iteration' = FALSE
  /\ pc' = to
  /\ UNCHANGED <<ctlVars, apiVars_but_pc, runVars, handler_chain, handler_outcome, process_event,
                 pfGhost, ctx, chain_outcome, closed>>

\* HandlerWait passing on the timeout of the wait before it
HandlerWait_KeepsTimeout(at, ret) ==
  /\ pc = at
  /\ Call("bue_spawn", ret)
  /\ target_trigger' = "noop"
  /\ waits' = Bump(waits)
  /\ UNCHANGED <<ctlVars, memVars, envVars, last_api, timeout, bueGhost, trig,
                 trigger_finished, elapsed, decoded, multi_pending, track_idx, handler_idx,
                 event, run_result, acks, invoked, skipped, chainVars>>

\* api.block_untill_event(|| Ok(()), None)
HandlerWait(at, ret) ==
  /\ pc = at
  /\ Call("bue_spawn", ret)
  /\ target_trigger' = "noop"
  /\ timeout' = NoTimeout
  /\ waits' = Bump(waits)
  /\ UNCHANGED <<ctlVars, memVars, envVars, last_api, bueGhost, trig, trigger_finished, elapsed,
                 decoded, multi_pending, track_idx, handler_idx, event, run_result,
                 acks, invoked, skipped, chainVars>>

\* HandlerGotEvent dropping the received event: `event` keeps its old value
HandlerGotEvent_KeepsOld(at, to) ==
  /\ pc = at
  /\ IF result.kind = "Event"
       THEN /\ acks' = 0
            /\ pc' = to
            /\ UNCHANGED handler_outcome
       ELSE /\ handler_outcome' = ProcessFailed
            /\ pc' = "chain_match"
            /\ UNCHANGED acks
  /\ UNCHANGED <<ctlVars, apiVars_but_pc, track_idx, handler_idx, event, run_result, waits,
                 invoked, skipped, handler_chain, process_event, process_first_iteration,
                 pfGhost, ctx, chain_outcome, closed>>

\* the `?` after it: event = ..., or process returns the error
HandlerGotEvent(at, to) ==
  /\ pc = at
  /\ IF result.kind = "Event"
       THEN /\ process_event' = result.event
            /\ acks' = 0
            /\ pc' = to
            /\ UNCHANGED handler_outcome
       ELSE /\ handler_outcome' = ProcessFailed
            /\ pc' = "chain_match"
            /\ UNCHANGED <<process_event, acks>>
  /\ UNCHANGED <<ctlVars, apiVars_but_pc, track_idx, handler_idx, event, run_result, waits,
                 invoked, skipped, handler_chain, process_first_iteration, pfGhost, ctx,
                 chain_outcome, closed>>

(* SkipUntilPageFaultSequence::process *)
PfsAck == HandlerAck("pfs_loop", "pfs_wait")
PfsFirst == HandlerFirst("pfs_loop", "pfs_match")
PfsWait == HandlerWait("pfs_wait", "pfs_got_event")
PfsGotEvent == HandlerGotEvent("pfs_got_event", "pfs_match")

\* match &event { StepEvent => continue, PageFaultEvent => compare and advance }
PfsMatch ==
  /\ pc = "pfs_match"
  /\ IF process_event.kind = "StepEvent"
       THEN /\ pc' = "pfs_loop"
            /\ UNCHANGED <<handler_chain, handler_outcome, pfGhost, run_result>>
       ELSE /\ pf_matched' = Extend(pf_matched, this.pf_sequence, process_event.faulted_gpa)
            /\ pf_exact' = (/\ pf_exact
                            /\ pf_count < Len(this.pf_sequence)
                            /\ this.pf_sequence[pf_count + 1] = process_event.faulted_gpa)
            /\ pf_count' = IF pf_count <= Len(this.pf_sequence)
                             THEN pf_count + 1 ELSE pf_count
            /\ LET r == PfsStep(this, process_event.faulted_gpa)
               IN /\ handler_chain' = [handler_chain EXCEPT ![handler_idx] = r.h]
                  /\ CASE r.ends = "panic" ->
                            /\ run_result' = "Panic"
                            /\ pc' = "chain_drop"
                            /\ UNCHANGED handler_outcome
                       [] r.ends = "continue" ->
                            /\ pc' = "pfs_loop"
                            /\ UNCHANGED <<handler_outcome, run_result>>
                       [] OTHER ->
                            /\ handler_outcome' = EventHandlerOutcome(process_event, r.ends)
                            /\ pc' = "chain_match"
                            /\ UNCHANGED run_result
  /\ UNCHANGED <<ctlVars, apiVars_but_pc, track_idx, handler_idx, event, waits, acks, invoked,
                 skipped, process_event, process_first_iteration, ctx, chain_outcome,
                 closed>>

(* SkipUntilNSingleSteps::process *)
NssAck == HandlerAck("nss_loop", "nss_wait")
NssFirst == HandlerFirst("nss_loop", "nss_match")
NssWait == HandlerWait("nss_wait", "nss_got_event")
NssGotEvent == HandlerGotEvent("nss_got_event", "nss_match")

\* match &event { PageFaultEvent => continue, StepEvent => count }
NssMatch ==
  /\ pc = "nss_match"
  /\ IF process_event.kind = "PageFaultEvent"
       THEN /\ pc' = "nss_loop"
            /\ UNCHANGED <<handler_chain, handler_outcome>>
       ELSE /\ this.step_counter <= MaxWanted
            /\ LET r == NssStep(this, process_event.retired_instructions)
               IN /\ handler_chain' = [handler_chain EXCEPT ![handler_idx] = r.h]
                  /\ IF r.ends = "continue"
                       THEN /\ pc' = "nss_loop"
                            /\ UNCHANGED handler_outcome
                       ELSE /\ handler_outcome' = EventHandlerOutcome(process_event, r.ends)
                            /\ pc' = "chain_match"
  /\ UNCHANGED <<ctlVars, apiVars_but_pc, runVars, process_event, process_first_iteration,
                 pfGhost, ctx, chain_outcome, closed>>

(* ClosureAdapterHandler::process: (self.payload)(&event, api, ctx) *)
\* the closure keeps the trait's contract: it returns the event it was called
\* with, any next action or an error, and may insert its key into ctx
ClosureProcess ==
  /\ pc = "closure"
  /\ \E a \in StateMachineNextAction \cup {"Err"} :
       handler_outcome' = IF a = "Err" THEN ProcessFailed
                          ELSE EventHandlerOutcome(process_event, a)
  /\ \E insert \in BOOLEAN :
       ctx' = IF insert THEN ctx \cup {handler_idx} ELSE ctx
  /\ pc' = "chain_match"
  /\ UNCHANGED <<ctlVars, apiVars_but_pc, runVars, handler_chain, process_event,
                 process_first_iteration, pfGhost, chain_outcome, closed>>

PfsNext == PfsAck \/ PfsFirst \/ PfsWait \/ PfsGotEvent \/ PfsMatch

NssNext == NssAck \/ NssFirst \/ NssWait \/ NssGotEvent \/ NssMatch

(* ----------------------- ComposableHandlerChain::run -------------------- *)
\* for x in initial_tracking.gpas { self.api.track_page(x, ..)? }
ChainTrackPage ==
  /\ pc = "chain_track"
  /\ \E ok \in BOOLEAN :
       IF ok
         THEN /\ track_idx' = track_idx + 1
              /\ pc' = IF track_idx + 1 < NumInitialGpas
                         THEN "chain_track" ELSE "chain_first_wait"
              /\ UNCHANGED run_result
         ELSE /\ run_result' = "Err"
              /\ pc' = "chain_drop"
              /\ UNCHANGED track_idx
  /\ UNCHANGED <<ctlVars, apiVars_but_pc, handler_idx, event, waits, acks, invoked, skipped,
                 chainVars>>

\* let mut event = match self.target_trigger { None => .., Some(trigger) => .. }
ChainFirstWait ==
  /\ pc = "chain_first_wait"
  /\ Call("bue_spawn", "chain_got_event")
  /\ target_trigger' \in {"caller", "noop"}
  /\ waits' = Bump(waits)
  /\ UNCHANGED <<ctlVars, memVars, envVars, last_api, timeout, bueGhost, trig, trigger_finished,
                 elapsed, decoded, multi_pending, track_idx, handler_idx, event,
                 run_result, acks, invoked, skipped, chainVars>>

\* the `?` after the first wait
ChainGotEvent ==
  /\ pc = "chain_got_event"
  /\ IF result.kind = "Event"
       THEN /\ event' = result.event
            /\ handler_idx' = 1
            /\ acks' = 0
            /\ pc' = "chain_handler"
            /\ UNCHANGED run_result
       ELSE /\ run_result' = "Err"
            /\ pc' = "chain_drop"
            /\ UNCHANGED <<event, handler_idx, acks>>
  /\ UNCHANGED <<ctlVars, apiVars_but_pc, track_idx, waits, invoked, skipped, chainVars>>

\* handler.process(&event, &mut self.api, &mut ctx) is entered
ChainProcess ==
  /\ pc = "chain_handler"
  /\ invoked' = Append(invoked, handler_idx)
  /\ process_event' = event
  /\ process_first_iteration' = TRUE
  /\ pf_matched' = {0}
  /\ pf_count' = 0
  /\ pf_exact' = TRUE
  /\ handler_outcome' = NoOutcome
  /\ pc' = CASE this.kind = "SkipUntilPageFaultSequence" -> "pfs_loop"
             [] this.kind = "SkipUntilNSingleSteps" -> "nss_loop"
             [] OTHER -> "closure"
  /\ UNCHANGED <<ctlVars, apiVars_but_pc, track_idx, handler_idx, event, run_result, waits, acks,
                 skipped, handler_chain, ctx, chain_outcome, closed>>

\* Ok(ComposableHandlerChainOutcome { pending_event: event, produced_ctx: ctx })
ComposableHandlerChainOutcome(e, c) == [pending_event |-> e, produced_ctx |-> c]
NoChainOutcome == [pending_event |-> NoEvent, produced_ctx |-> {}]

\* handler.process(..)? failed
ChainProcessFailed ==
  /\ pc = "chain_match"
  /\ handler_outcome.kind = "Err"
  /\ run_result' = "Err"
  /\ pc' = "chain_drop"
  /\ UNCHANGED <<ctlVars, apiVars_but_pc, track_idx, handler_idx, event, waits, acks, invoked,
                 skipped, chainVars>>

\* ChainNext going on to the next handler with the event the run had before
ChainNext_StaleEvent ==
  /\ pc = "chain_match"
  /\ handler_outcome.kind = "Ok"
  /\ handler_outcome.next_action = "NEXT"
  /\ UNCHANGED event
  /\ IF handler_idx < Len(handler_chain)
       THEN /\ handler_idx' = handler_idx + 1
            /\ pc' = "chain_handler"
            /\ UNCHANGED <<run_result, chain_outcome>>
       ELSE /\ chain_outcome' = ComposableHandlerChainOutcome(event, ctx)
            /\ run_result' = "Ok"
            /\ pc' = "chain_drop"
            /\ UNCHANGED handler_idx
  /\ UNCHANGED <<ctlVars, apiVars_but_pc, track_idx, waits, acks, invoked, skipped, handler_chain,
                 handler_outcome, process_event, process_first_iteration, pfGhost, ctx,
                 closed>>

\* event = handler_outcome.pending_event; NEXT: next handler, or Ok after the last
ChainNext ==
  /\ pc = "chain_match"
  /\ handler_outcome.kind = "Ok"
  /\ handler_outcome.next_action = "NEXT"
  /\ event' = handler_outcome.pending_event
  /\ IF handler_idx < Len(handler_chain)
       THEN /\ handler_idx' = handler_idx + 1
            /\ pc' = "chain_handler"
            /\ UNCHANGED <<run_result, chain_outcome>>
       ELSE /\ chain_outcome' = ComposableHandlerChainOutcome(event', ctx)
            /\ run_result' = "Ok"
            /\ pc' = "chain_drop"
            /\ UNCHANGED handler_idx
  /\ UNCHANGED <<ctlVars, apiVars_but_pc, track_idx, waits, acks, invoked, skipped, handler_chain,
                 handler_outcome, process_event, process_first_iteration, pfGhost, ctx,
                 closed>>

\* ChainSkip going on to the next handler as NEXT does
ChainSkip_AsNext ==
  /\ pc = "chain_match"
  /\ handler_outcome.kind = "Ok"
  /\ handler_outcome.next_action = "SKIP"
  /\ event' = handler_outcome.pending_event
  /\ skipped' = TRUE
  /\ IF handler_idx < Len(handler_chain)
       THEN /\ handler_idx' = handler_idx + 1
            /\ pc' = "chain_handler"
            /\ UNCHANGED <<run_result, chain_outcome>>
       ELSE /\ chain_outcome' = ComposableHandlerChainOutcome(event', ctx)
            /\ run_result' = "Ok"
            /\ pc' = "chain_drop"
            /\ UNCHANGED handler_idx
  /\ UNCHANGED <<ctlVars, apiVars_but_pc, track_idx, waits, acks, invoked, handler_chain,
                 handler_outcome, process_event, process_first_iteration, pfGhost, ctx,
                 closed>>

\* SKIP: panic!("todo: composeable handler chain does not support ..SKIP")
ChainSkip ==
  /\ pc = "chain_match"
  /\ handler_outcome.kind = "Ok"
  /\ handler_outcome.next_action = "SKIP"
  /\ event' = handler_outcome.pending_event
  /\ skipped' = TRUE
  /\ run_result' = "Panic"
  /\ pc' = "chain_drop"
  /\ UNCHANGED <<ctlVars, apiVars_but_pc, track_idx, handler_idx, waits, acks, invoked,
                 chainVars>>

\* ChainShutdown acknowledging the event first, as TargetedStepper::run does
ChainShutdown_WithAck ==
  /\ pc = "chain_match"
  /\ handler_outcome.kind = "Ok"
  /\ handler_outcome.next_action = "SHUTDOWN"
  /\ event' = handler_outcome.pending_event
  /\ chain_outcome' = ComposableHandlerChainOutcome(event', ctx)
  /\ run_result' = "Ok"
  /\ acks' = acks + 1
  /\ CallNoWait("ack_lock", "chain_drop")
  /\ UNCHANGED <<ctlVars, memVars, envVars, last_api, argVars, decoded, multi_pending, track_idx,
                 handler_idx, waits, invoked, skipped, handler_chain, handler_outcome,
                 process_event, process_first_iteration, pfGhost, ctx, closed>>

\* SHUTDOWN: return Ok(..) with the event kept pending
ChainShutdown ==
  /\ pc = "chain_match"
  /\ handler_outcome.kind = "Ok"
  /\ handler_outcome.next_action = "SHUTDOWN"
  /\ event' = handler_outcome.pending_event
  /\ chain_outcome' = ComposableHandlerChainOutcome(event', ctx)
  /\ run_result' = "Ok"
  /\ pc' = "chain_drop"
  /\ UNCHANGED <<ctlVars, apiVars_but_pc, track_idx, handler_idx, waits, acks, invoked, skipped,
                 handler_chain, handler_outcome, process_event, process_first_iteration,
                 pfGhost, ctx, closed>>

\* ChainErrorShutdown going on to the next handler as NEXT does
ChainErrorShutdown_AsNext ==
  /\ pc = "chain_match"
  /\ handler_outcome.kind = "Ok"
  /\ handler_outcome.next_action = "ErrorShutdown"
  /\ event' = handler_outcome.pending_event
  /\ IF handler_idx < Len(handler_chain)
       THEN /\ handler_idx' = handler_idx + 1
            /\ pc' = "chain_handler"
            /\ UNCHANGED <<run_result, chain_outcome>>
       ELSE /\ chain_outcome' = ComposableHandlerChainOutcome(event', ctx)
            /\ run_result' = "Ok"
            /\ pc' = "chain_drop"
            /\ UNCHANGED handler_idx
  /\ UNCHANGED <<ctlVars, apiVars_but_pc, track_idx, waits, acks, invoked, skipped, handler_chain,
                 handler_outcome, process_event, process_first_iteration, pfGhost, ctx,
                 closed>>

\* ErrorShutdown(message): return Err(..)
ChainErrorShutdown ==
  /\ pc = "chain_match"
  /\ handler_outcome.kind = "Ok"
  /\ handler_outcome.next_action = "ErrorShutdown"
  /\ event' = handler_outcome.pending_event
  /\ run_result' = "Err"
  /\ pc' = "chain_drop"
  /\ UNCHANGED <<ctlVars, apiVars_but_pc, track_idx, handler_idx, waits, acks, invoked, skipped,
                 chainVars>>

\* run(mut self) returns or unwinds: self.api is dropped, and Drop for SevStep
\* issues stop_stepping and close_api
ChainDrop ==
  /\ pc = "chain_drop"
  /\ closed' = TRUE
  /\ pc' = "done"
  /\ UNCHANGED <<ctlVars, apiVars_but_pc, runVars, handler_chain, handler_outcome, process_event,
                 process_first_iteration, pfGhost, ctx, chain_outcome>>

ChainRunNext ==
  \/ ChainTrackPage \/ ChainFirstWait \/ ChainGotEvent \/ ChainProcess
  \/ ChainProcessFailed \/ ChainNext \/ ChainSkip \/ ChainShutdown
  \/ ChainErrorShutdown \/ ChainDrop

(* ------------------------- SkipIfNotOnTargetGPAs ------------------------ *)
\* SkipIfNotOnTargetGPAs::new
NewSkipIfNotOnTargetGPAs(target_gpas) ==
  [kind |-> "SkipIfNotOnTargetGPAs", on_victim_pages |-> FALSE,
   target_gpas |-> target_gpas]

\* Ok(next_action) returned by an EventHandler, which hands back no event
OkAction(a) == [kind |-> "Ok", pending_event |-> NoEvent, next_action |-> a]

\* a control call with the addresses it names (none for the calls on all pages)
CtlCall(call, gpas) == [call |-> call, gpas |-> gpas]

\* the events a handler can be given
Events == {Decode(p) : p \in Payloads}

\* the driver's side of the control calls: stepping and page tracking
DriverState(stepping, tracked) == [stepping |-> stepping, tracked |-> tracked]

\* no stepping and no tracked page, as after init_api
NewDriver == DriverState(FALSE, {})

\* the effect on the driver of a control call that succeeds
ApplyCall(d, c) ==
  CASE c.call = "track_page" -> [d EXCEPT !.tracked = @ \cup c.gpas]
    [] c.call = "untrack_page" -> [d EXCEPT !.tracked = @ \ c.gpas]
    [] c.call = "track_all_pages" -> [d EXCEPT !.tracked = 1..MaxGpa]
    [] c.call = "untrack_all_pages" -> [d EXCEPT !.tracked = {}]
    [] c.call = "start_stepping" -> [d EXCEPT !.stepping = TRUE]
    [] c.call = "stop_stepping" -> [d EXCEPT !.stepping = FALSE]
    [] OTHER -> d

\* targets the running `for x in &self.target_gpas` has not visited with `call`
Remaining(call) ==
  this.target_gpas
    \ UNION {ctl_calls[i].gpas : i \in {j \in DOMAIN ctl_calls : ctl_calls[j].call = call}}

\* api.<call>(..)?: the call is issued; if it fails process returns the error
ControlCall(c, to) ==
  /\ ctl_calls' = Append(ctl_calls, c)
  /\ \E ok \in BOOLEAN :
       IF ok
         THEN /\ pc' = to
              /\ driver' = ApplyCall(driver, c)
              /\ UNCHANGED handler_outcome
         ELSE /\ pc' = "process_returned"
              /\ handler_outcome' = ProcessFailed
              /\ UNCHANGED driver

\* Option<_>
None == [some |-> FALSE]
Some(v) == [some |-> TRUE, v |-> v]

\* the first statement of the process function of handler object h
ProcessEntry(h) ==
  CASE h.kind = "SkipIfNotOnTargetGPAs" -> "skipif_process"
    [] h.kind = "RetrackGPASet" -> "retrack_process"
    [] h.kind = "BuildStepHistogram" -> "histogram_process"
    [] h.kind = "StopAfterNSingleStepsHandler" -> "stopafter_process"

\* the handlers that count step events
Counting(h) == h.kind \in {"BuildStepHistogram", "StopAfterNSingleStepsHandler"}

\* handler.process(&event, &mut self.api, &mut ctx) is called with some event
ProcessCall ==
  /\ pc = "process_call"
  /\ \E e \in Events :
       /\ process_event' = e
       /\ steps_seen' = IF Counting(this) /\ e.kind = "StepEvent"
                          THEN Append(steps_seen, e.retired_instructions)
                          ELSE steps_seen
  /\ Len(steps_seen') <= MaxEvents
  /\ ctl_calls' = <<>>
  /\ this_at_entry' = this
  /\ handler_outcome' = NoOutcome
  /\ pc' = ProcessEntry(this)
  /\ UNCHANGED <<apiVars_but_pc, runVars, lifeVars, driver, handler_chain,
                 process_first_iteration, pfGhost, ctx, chain_outcome, closed>>

\* the match on the event and the two tests of `if self.on_victim_pages`
SkipIfProcess ==
  /\ pc = "skipif_process"
  /\ IF process_event.kind = "StepEvent"
       THEN /\ handler_outcome' = OkAction("NEXT")
            /\ pc' = "process_returned"
       ELSE IF this.on_victim_pages
         THEN IF process_event.faulted_gpa \in this.target_gpas
                THEN /\ handler_outcome' = ProcessFailed
                     /\ pc' = "process_returned"
                ELSE /\ pc' = "skipif_stop_stepping"
                     /\ UNCHANGED handler_outcome
         ELSE /\ pc' = IF process_event.faulted_gpa \in this.target_gpas
                         THEN "skipif_track_all" ELSE "skipif_result"
              /\ UNCHANGED handler_outcome
  /\ UNCHANGED <<apiVars_but_pc, runVars, ctlVars, handler_chain, process_event,
                 process_first_iteration, pfGhost, ctx, chain_outcome, closed>>

\* SkipIfStopStepping leaving the target pages without the stop_stepping call
SkipIfStopStepping_NoCall ==
  /\ pc = "skipif_stop_stepping"
  /\ pc' = "skipif_untrack_all"
  /\ UNCHANGED <<apiVars_but_pc, upperVars>>

\* api.stop_stepping()?
SkipIfStopStepping ==
  /\ pc = "skipif_stop_stepping"
  /\ ControlCall(CtlCall("stop_stepping", {}), "skipif_untrack_all")
  /\ UNCHANGED <<apiVars_but_pc, runVars, this_at_entry, steps_seen, lifeVars, handler_chain, process_event,
                 process_first_iteration, pfGhost, ctx, chain_outcome, closed>>

\* SkipIfUntrackAll followed by no track_page call for the target addresses
SkipIfUntrackAll_NoRetrack ==
  /\ pc = "skipif_untrack_all"
  /\ ControlCall(CtlCall("untrack_all_pages", {}), "skipif_left")
  /\ UNCHANGED <<apiVars_but_pc, runVars, this_at_entry, steps_seen, lifeVars, handler_chain,
                 process_event, process_first_iteration, pfGhost, ctx, chain_outcome,
                 closed>>

\* api.untrack_all_pages(self.track_mode)?
SkipIfUntrackAll ==
  /\ pc = "skipif_untrack_all"
  /\ ControlCall(CtlCall("untrack_all_pages", {}), "skipif_track_page")
  /\ UNCHANGED <<apiVars_but_pc, runVars, this_at_entry, steps_seen, lifeVars, handler_chain, process_event,
                 process_first_iteration, pfGhost, ctx, chain_outcome, closed>>

\* for x in &self.target_gpas { api.track_page(*x, self.track_mode)..? }
SkipIfTrackPage ==
  /\ pc = "skipif_track_page"
  /\ \E x \in Remaining("track_page") :
       ControlCall(CtlCall("track_page", {x}),
                   IF Remaining("track_page") = {x}
                     THEN "skipif_left" ELSE "skipif_track_page")
  /\ UNCHANGED <<apiVars_but_pc, runVars, this_at_entry, steps_seen, lifeVars, handler_chain, process_event,
                 process_first_iteration, pfGhost, ctx, chain_outcome, closed>>

\* self.on_victim_pages = false
SkipIfLeft ==
  /\ pc = "skipif_left"
  /\ handler_chain' = [handler_chain EXCEPT ![handler_idx].on_victim_pages = FALSE]
  /\ pc' = "skipif_result"
  /\ UNCHANGED <<apiVars_but_pc, runVars, ctlVars, handler_outcome, process_event,
                 process_first_iteration, pfGhost, ctx, chain_outcome, closed>>

\* api.track_all_pages(self.track_mode)?
SkipIfTrackAll ==
  /\ pc = "skipif_track_all"
  /\ ControlCall(CtlCall("track_all_pages", {}), "skipif_untrack_page")
  /\ UNCHANGED <<apiVars_but_pc, runVars, this_at_entry, steps_seen, lifeVars, handler_chain, process_event,
                 process_first_iteration, pfGhost, ctx, chain_outcome, closed>>

\* for x in &self.target_gpas { api.untrack_page(*x, self.track_mode)..? }
SkipIfUntrackPage ==
  /\ pc = "skipif_untrack_page"
  /\ \E x \in Remaining("untrack_page") :
       ControlCall(CtlCall("untrack_page", {x}),
                   IF Remaining("untrack_page") = {x}
                     THEN "skipif_start_stepping" ELSE "skipif_untrack_page")
  /\ UNCHANGED <<apiVars_but_pc, runVars, this_at_entry, steps_seen, lifeVars, handler_chain, process_event,
                 process_first_iteration, pfGhost, ctx, chain_outcome, closed>>

\* SkipIfStartStepping leaving the flag as it is after the call
SkipIfStartStepping_KeepsFlag ==
  /\ pc = "skipif_start_stepping"
  /\ ControlCall(CtlCall("start_stepping", this.target_gpas), "skipif_result")
  /\ UNCHANGED <<apiVars_but_pc, runVars, this_at_entry, steps_seen, lifeVars, handler_chain, process_event,
                 process_first_iteration, pfGhost, ctx, chain_outcome, closed>>

\* api.start_stepping(self.timer_value, &mut gpas, true)?; self.on_victim_pages = true
SkipIfStartStepping ==
  /\ pc = "skipif_start_stepping"
  /\ ControlCall(CtlCall("start_stepping", this.target_gpas), "skipif_result")
  /\ handler_chain' =
       IF pc' = "skipif_result"
         THEN [handler_chain EXCEPT ![handler_idx].on_victim_pages = TRUE]
         ELSE handler_chain
  /\ UNCHANGED <<apiVars_but_pc, runVars, this_at_entry, steps_seen, lifeVars, process_event,
                 process_first_iteration, pfGhost, ctx, chain_outcome, closed>>

\* if self.on_victim_pages { Ok(NEXT) } else { Ok(SKIP) }
SkipIfResult ==
  /\ pc = "skipif_result"
  /\ handler_outcome' = OkAction(IF this.on_victim_pages THEN "NEXT" ELSE "SKIP")
  /\ pc' = "process_returned"
  /\ UNCHANGED <<apiVars_but_pc, runVars, ctlVars, handler_chain, process_event,
                 process_first_iteration, pfGhost, ctx, chain_outcome, closed>>

\* the `?` after handler.process(..) and the match on its result: an error and
\* SHUTDOWN end the caller's loop
ProcessReturned ==
  /\ pc = "process_returned"
  /\ IF handler_outcome.kind = "Ok" /\ handler_outcome.next_action \in {"NEXT", "SKIP"}
       THEN /\ pc' = "process_call"
            /\ UNCHANGED run_result
       ELSE /\ pc' = "done"
            /\ run_result' = IF handler_outcome.kind = "Ok" THEN "Ok" ELSE "Err"
  /\ UNCHANGED <<apiVars_but_pc, track_idx, handler_idx, event, waits, acks, invoked,
                 skipped, chainVars, ctlVars>>

SkipIfNext ==
  \/ SkipIfProcess \/ SkipIfStopStepping \/ SkipIfUntrackAll \/ SkipIfTrackPage
  \/ SkipIfLeft \/ SkipIfTrackAll \/ SkipIfUntrackPage \/ SkipIfStartStepping
  \/ SkipIfResult

(* ----------------------------- RetrackGPASet --------------------------- *)
\* RetrackGPASet::new
NewRetrackGPASet(gpas, max_iterations) ==
  [kind |-> "RetrackGPASet", gpas |-> gpas, gpa_for_retrack |-> None,
   iteration_count |-> 0, max_iterations |-> max_iterations]

\* ctx.insert(key, value): the map as a set of <<key, value>> entries
CtxInsert(c, key, value) == {e \in c : e[1] # key} \cup {<<key, value>>}

\* RetrackProcess without the test for a second fault at the pending address
RetrackProcess_NoSecondFaultTest ==
  /\ pc = "retrack_process"
  /\ IF process_event.kind = "StepEvent"
       THEN /\ handler_outcome' = OkAction("NEXT")
            /\ pc' = "process_returned"
            /\ UNCHANGED ctx
       ELSE /\ ctx' = CtxInsert(ctx, "RetrackGPASet_Current_GPA", process_event.faulted_gpa)
            /\ pc' = IF this.gpa_for_retrack.some
                       THEN "retrack_track_page" ELSE "retrack_remember"
            /\ UNCHANGED handler_outcome
  /\ UNCHANGED <<apiVars_but_pc, runVars, ctlVars, handler_chain, process_event,
                 process_first_iteration, pfGhost, chain_outcome, closed>>

\* match &event, update_current_gpa_in_ctx(..)?, and the test of gpa_for_retrack
RetrackProcess ==
  /\ pc = "retrack_process"
  /\ IF process_event.kind = "StepEvent"
       THEN /\ handler_outcome' = OkAction("NEXT")
            /\ pc' = "process_returned"
            /\ UNCHANGED ctx
       ELSE /\ ctx' = CtxInsert(ctx, "RetrackGPASet_Current_GPA", process_event.faulted_gpa)
            /\ IF this.gpa_for_retrack.some
                 THEN IF this.gpa_for_retrack.v = process_event.faulted_gpa
                        THEN /\ handler_outcome' = ProcessFailed
                             /\ pc' = "process_returned"
                        ELSE /\ pc' = "retrack_track_page"
                             /\ UNCHANGED handler_outcome
                 ELSE /\ pc' = "retrack_remember"
                      /\ UNCHANGED handler_outcome
  /\ UNCHANGED <<apiVars_but_pc, runVars, ctlVars, handler_chain, process_event,
                 process_first_iteration, pfGhost, chain_outcome, closed>>

\* RetrackTrackPage leaving gpa_for_retrack set after the call
RetrackTrackPage_KeepsPending ==
  /\ pc = "retrack_track_page"
  /\ ControlCall(CtlCall("track_page", {this.gpa_for_retrack.v}), "retrack_remember")
  /\ UNCHANGED <<apiVars_but_pc, runVars, this_at_entry, steps_seen, lifeVars, handler_chain, process_event,
                 process_first_iteration, pfGhost, ctx, chain_outcome, closed>>

\* api.track_page(gpa, self.track_mode)..?; self.gpa_for_retrack = None
RetrackTrackPage ==
  /\ pc = "retrack_track_page"
  /\ ControlCall(CtlCall("track_page", {this.gpa_for_retrack.v}), "retrack_remember")
  /\ handler_chain' =
       IF pc' = "retrack_remember"
         THEN [handler_chain EXCEPT ![handler_idx].gpa_for_retrack = None]
         ELSE handler_chain
  /\ UNCHANGED <<apiVars_but_pc, runVars, this_at_entry, steps_seen, lifeVars, process_event,
                 process_first_iteration, pfGhost, ctx, chain_outcome, closed>>

\* RetrackRemember counting only the faults at addresses of the set
RetrackRemember_CountsTracked ==
  /\ pc = "retrack_remember"
  /\ this.iteration_count <= MaxIterations
  /\ LET h1 == IF process_event.faulted_gpa \in this.gpas
                 THEN [this EXCEPT !.gpa_for_retrack = Some(process_event.faulted_gpa)]
                 ELSE this
         h2 == IF process_event.faulted_gpa \in this.gpas
                 THEN [h1 EXCEPT !.iteration_count = h1.iteration_count + 1]
                 ELSE h1
     IN /\ handler_chain' = [handler_chain EXCEPT ![handler_idx] = h2]
        /\ handler_outcome' =
             IF h2.max_iterations.some /\ h2.iteration_count >= h2.max_iterations.v
               THEN OkAction("SHUTDOWN") ELSE OkAction("NEXT")
  /\ pc' = "process_returned"
  /\ UNCHANGED <<apiVars_but_pc, runVars, ctlVars, process_event,
                 process_first_iteration, pfGhost, ctx, chain_outcome, closed>>

\* if self.gpas.contains(..) { gpa_for_retrack = Some(..) }; iteration_count += 1;
\* SHUTDOWN when max_iterations is reached, else NEXT
RetrackRemember ==
  /\ pc = "retrack_remember"
  /\ this.iteration_count <= MaxIterations
  /\ LET h1 == IF process_event.faulted_gpa \in this.gpas
                 THEN [this EXCEPT !.gpa_for_retrack = Some(process_event.faulted_gpa)]
                 ELSE this
         h2 == [h1 EXCEPT !.iteration_count = h1.iteration_count + 1]
     IN /\ handler_chain' = [handler_chain EXCEPT ![handler_idx] = h2]
        /\ handler_outcome' =
             IF h2.max_iterations.some /\ h2.iteration_count >= h2.max_iterations.v
               THEN OkAction("SHUTDOWN") ELSE OkAction("NEXT")
  /\ pc' = "process_returned"
  /\ UNCHANGED <<apiVars_but_pc, runVars, ctlVars, process_event,
                 process_first_iteration, pfGhost, ctx, chain_outcome, closed>>

RetrackNext == RetrackProcess \/ RetrackTrackPage \/ RetrackRemember

(* --------------- BuildStepHistogram, StopAfterNSingleStepsHandler ------- *)
\* BuildStepHistogram::new; step_histogram is a function on the sizes seen
NewBuildStepHistogram ==
  [kind |-> "BuildStepHistogram", step_histogram |-> <<>>, event_counter |-> 0]

\* HistogramProcess creating a new entry with 1 and then adding 1 to it
EntryAddOne_InsertOne(map, key) ==
  [k \in DOMAIN map \cup {key} |->
     IF k = key THEN (IF key \in DOMAIN map THEN map[key] ELSE 1) + 1 ELSE map[k]]

\* *map.entry(key).or_insert(0) += 1
EntryAddOne(map, key) ==
  [k \in DOMAIN map \cup {key} |->
     IF k = key THEN (IF key \in DOMAIN map THEN map[key] ELSE 0) + 1 ELSE map[k]]

\* BuildStepHistogram::process
HistogramProcess ==
  /\ pc = "histogram_process"
  /\ IF process_event.kind = "PageFaultEvent"
       THEN UNCHANGED handler_chain
       ELSE handler_chain' =
              [handler_chain EXCEPT ![handler_idx] =
                 [this EXCEPT
                    !.step_histogram =
                       EntryAddOne(this.step_histogram, process_event.retired_instructions),
                    !.event_counter = this.event_counter + 1]]
  /\ handler_outcome' = OkAction("NEXT")
  /\ pc' = "process_returned"
  /\ UNCHANGED <<apiVars_but_pc, runVars, ctlVars, process_event,
                 process_first_iteration, pfGhost, ctx, chain_outcome, closed>>

\* StopAfterNSingleStepsHandler::new, with expected_rip_values = None
NewStopAfterNSingleStepsHandler(n) ==
  [kind |-> "StopAfterNSingleStepsHandler", step_counter |-> 0, abort_thresh |-> n]

\* StopAfterProcess counting zero-instruction steps as well
StopAfterProcess_CountsZeroSteps ==
  /\ pc = "stopafter_process"
  /\ IF process_event.kind = "PageFaultEvent"
       THEN /\ handler_outcome' = OkAction("NEXT")
            /\ UNCHANGED <<handler_chain, ctx>>
       ELSE LET step_counter == this.step_counter + 1
            IN /\ handler_chain' =
                    [handler_chain EXCEPT ![handler_idx].step_counter = step_counter]
               /\ ctx' = CtxInsert(ctx, "CK_StopAfterNSingleStepsHandler_Step_Counter",
                                   step_counter)
               /\ handler_outcome' =
                    OkAction(IF step_counter > this.abort_thresh
                               THEN "SHUTDOWN" ELSE "NEXT")
  /\ pc' = "process_returned"
  /\ UNCHANGED <<apiVars_but_pc, runVars, ctlVars, process_event,
                 process_first_iteration, pfGhost, chain_outcome, closed>>

\* StopAfterNSingleStepsHandler::process
StopAfterProcess ==
  /\ pc = "stopafter_process"
  /\ IF process_event.kind = "PageFaultEvent"
         \/ process_event.retired_instructions = 0
       THEN /\ handler_outcome' = OkAction("NEXT")
            /\ UNCHANGED <<handler_chain, ctx>>
       ELSE LET step_counter == this.step_counter + 1
            IN /\ handler_chain' =
                    [handler_chain EXCEPT ![handler_idx].step_counter = step_counter]
               /\ ctx' = CtxInsert(ctx, "CK_StopAfterNSingleStepsHandler_Step_Counter",
                                   step_counter)
               /\ handler_outcome' =
                    OkAction(IF step_counter > this.abort_thresh
                               THEN "SHUTDOWN" ELSE "NEXT")
  /\ pc' = "process_returned"
  /\ UNCHANGED <<apiVars_but_pc, runVars, ctlVars, process_event,
                 process_first_iteration, pfGhost, chain_outcome, closed>>

(* ------------- TargetedStepper::run over a chain of handler objects ----- *)
\* match handler.process(&event, &mut self.api, &mut ctx): the call
RunProcess ==
  /\ pc = "run_handler"
  /\ process_event' = event
  /\ steps_seen' = IF this.kind = "StopAfterNSingleStepsHandler" /\ event.kind = "StepEvent"
                     THEN Append(steps_seen, event.retired_instructions)
                     ELSE steps_seen
  /\ Len(steps_seen') <= MaxEvents
  /\ ctl_calls' = <<>>
  /\ this_at_entry' = this
  /\ handler_outcome' = NoOutcome
  /\ invoked' = Append(invoked, handler_idx)
  /\ pc' = ProcessEntry(this)
  /\ UNCHANGED <<apiVars_but_pc, track_idx, handler_idx, event, run_result, waits, acks,
                 skipped, lifeVars, driver, handler_chain, process_first_iteration,
                 pfGhost,
                 ctx, chain_outcome, closed>>

\* the `?` after that call and the arms of the match
RunMatch ==
  /\ pc = "process_returned"
  /\ IF handler_outcome.kind # "Ok"
       THEN /\ run_result' = "Err"
            /\ pc' = "done"
            /\ UNCHANGED <<apiVars_but_pc, handler_idx, acks, skipped>>
       ELSE IF handler_outcome.next_action = "NEXT"
         THEN /\ handler_idx' = handler_idx + 1
              /\ pc' = IF handler_idx < Len(handler_chain) THEN "run_handler" ELSE "run_ack"
              /\ UNCHANGED <<apiVars_but_pc, run_result, acks, skipped>>
         ELSE IF handler_outcome.next_action = "SKIP"
           THEN /\ skipped' = TRUE
                /\ acks' = acks + 1
                /\ CallNoWait("ack_lock", "run_ack")
                /\ UNCHANGED <<memVars, envVars, last_api, argVars, decoded, multi_pending,
                               handler_idx, run_result>>
           ELSE /\ handler_outcome.next_action = "SHUTDOWN"
                /\ acks' = acks + 1
                /\ CallNoWait("ack_lock", "run_return_ok")
                /\ UNCHANGED <<memVars, envVars, last_api, argVars, decoded, multi_pending,
                               handler_idx, run_result, skipped>>
  /\ UNCHANGED <<chainVars, ctlVars, track_idx, event, waits, invoked>>

(* ------------------ SevStep::new, Drop for SevStep --------------------- *)
\* a Connection is open and owned by the orchestrator that runs
InitLife ==
  /\ api_open = TRUE
  /\ connections = 1
  /\ repetition = 0
  /\ failed_ioctls = {}
  /\ second_new = "none"

\* the driver accepts init_api only while it has no Connection registered
InitApiAccepted == ~api_open

\* what SevStep::new returns: File::open("/dev/kvm")..? and ioctls::init_api(..)..?
NewOutcome(kvm_ok) == IF kvm_ok /\ InitApiAccepted THEN "Ok" ELSE "Err"

\* the call that made SevStep::new fail, if one did
NewFailure(kvm_ok) ==
  IF ~kvm_ok THEN {"open"} ELSE IF ~InitApiAccepted THEN {"init_api"} ELSE {}

\* for _i in 0..10, and Ok(()) after the loop
TestLoop ==
  /\ pc = "test_loop"
  /\ IF repetition < MaxRepetitions
       THEN /\ pc' = "test_new"
            /\ UNCHANGED run_result
       ELSE /\ run_result' = "Ok"
            /\ pc' = "done"
  /\ UNCHANGED <<apiVars_but_pc, track_idx, handler_idx, event, waits, acks, invoked,
                 skipped, chainVars, ctlVars>>

\* let mut _sev_step = SevStep::new(false, ..).context(..)?
TestNew ==
  /\ pc = "test_new"
  /\ \E kvm_ok \in BOOLEAN :
       /\ failed_ioctls' = failed_ioctls \cup NewFailure(kvm_ok)
       /\ IF NewOutcome(kvm_ok) = "Ok"
            THEN /\ shared_mem_region' = NewSharedMem
                 /\ api_open' = TRUE
                 /\ connections' = connections + 1
                 /\ closed' = FALSE
                 /\ pc' = "test_live"
                 /\ UNCHANGED run_result
            ELSE /\ run_result' = "Err"
                 /\ pc' = "done"
                 /\ UNCHANGED <<shared_mem_region, api_open, connections, closed>>
  /\ UNCHANGED <<holders, envVars, retVars, argVars, bueGhost, trig, trigger_finished,
                 elapsed, decoded, multi_pending,
                 track_idx, handler_idx, event, waits, acks, invoked, skipped,
                 handler_chain, handler_outcome, process_event, process_first_iteration,
                 pfGhost, ctx, chain_outcome,
                 ctl_calls, this_at_entry, steps_seen, driver, repetition, second_new>>

\* SevStep::new called once more while _sev_step is alive
SecondNew ==
  /\ pc = "test_live"
  /\ second_new = "none"
  /\ \E kvm_ok \in BOOLEAN :
       /\ failed_ioctls' = failed_ioctls \cup NewFailure(kvm_ok)
       /\ second_new' = NewOutcome(kvm_ok)
       /\ api_open' = (api_open \/ NewOutcome(kvm_ok) = "Ok")
       /\ connections' = IF NewOutcome(kvm_ok) = "Ok" THEN connections + 1 ELSE connections
  /\ UNCHANGED <<apiVars, runVars, chainVars, ctl_calls, this_at_entry, steps_seen, driver,
                 repetition>>

\* DropStopStepping leaving drop when stop_stepping failed
DropStopStepping_ReturnsOnError ==
  /\ pc = "test_live"
  /\ ctl_calls' = <<CtlCall("stop_stepping", {})>>
  /\ \E ok \in BOOLEAN :
       IF ok
         THEN /\ pc' = "drop_close"
              /\ driver' = ApplyCall(driver, CtlCall("stop_stepping", {}))
              /\ UNCHANGED <<failed_ioctls, connections, repetition>>
         ELSE /\ failed_ioctls' = failed_ioctls \cup {"stop_stepping"}
              /\ UNCHANGED driver
              /\ connections' = connections - 1
              /\ repetition' = repetition + 1
              /\ pc' = "test_loop"
  /\ UNCHANGED <<apiVars_but_pc, runVars, chainVars, this_at_entry, steps_seen,
                 api_open, second_new>>

\* drop(_sev_step): if let Err(e) = self.stop_stepping() { error!(..) }
DropStopStepping ==
  /\ pc = "test_live"
  /\ ctl_calls' = <<CtlCall("stop_stepping", {})>>
  /\ \E ok \in BOOLEAN :
       /\ failed_ioctls' = IF ok THEN failed_ioctls ELSE failed_ioctls \cup {"stop_stepping"}
       /\ driver' = IF ok THEN ApplyCall(driver, CtlCall("stop_stepping", {})) ELSE driver
  /\ pc' = "drop_close"
  /\ UNCHANGED <<apiVars_but_pc, runVars, chainVars, this_at_entry, steps_seen,
                 api_open, connections, repetition, second_new>>

\* DropCloseApi without the close_api call
DropCloseApi_NoCall ==
  /\ pc = "drop_close"
  /\ connections' = connections - 1
  /\ closed' = TRUE
  /\ repetition' = repetition + 1
  /\ pc' = "test_loop"
  /\ UNCHANGED <<apiVars_but_pc, runVars, handler_chain, handler_outcome, process_event,
                 process_first_iteration, pfGhost, ctx, chain_outcome,
                 ctl_calls, this_at_entry, steps_seen, driver, api_open, failed_ioctls,
                 second_new>>

\* if let Err(e) = ioctls::close_api(..) { error!(..) }, and the end of the
\* loop body; a close_api that succeeds ends the driver's Connection
DropCloseApi ==
  /\ pc = "drop_close"
  /\ ctl_calls' = Append(ctl_calls, CtlCall("close_api", {}))
  /\ \E ok \in BOOLEAN :
       IF ok
         THEN /\ api_open' = FALSE
              /\ UNCHANGED failed_ioctls
         ELSE /\ failed_ioctls' = failed_ioctls \cup {"close_api"}
              /\ UNCHANGED api_open
  /\ connections' = connections - 1
  /\ closed' = TRUE
  /\ repetition' = repetition + 1
  /\ pc' = "test_loop"
  /\ UNCHANGED <<apiVars_but_pc, runVars, handler_chain, handler_outcome, process_event,
                 process_first_iteration, pfGhost, ctx, chain_outcome,
                 this_at_entry, steps_seen, driver, second_new>>

(* ----------------------------- specification ---------------------------- *)
InitApi ==
  /\ shared_mem_region = NewSharedMem
  /\ holders = {}
  /\ drv = "idle"
  /\ abort_queued = 0
  /\ abort_connected = TRUE
  /\ error_on_multi_step \in BOOLEAN
  /\ stack = <<>>
  /\ result = NoResult
  /\ last_api = "none"
  /\ target_trigger = "noop"
  /\ trig = "none"
  /\ trigger_finished = FALSE
  /\ elapsed = 0
  /\ decoded = NoEvent
  /\ first_iteration = TRUE
  /\ have_at_entry = FALSE
  /\ abort_at_entry = FALSE
  /\ multi_pending = NoEvent

InitRun ==
  /\ track_idx = 0
  /\ handler_idx = 1
  /\ event = NoEvent
  /\ run_result = "running"
  /\ waits = 0
  /\ acks = 0
  /\ invoked = <<>>
  /\ skipped = FALSE

\* no ComposableHandlerChain has been built
InitNoChain ==
  /\ handler_chain = <<>>
  /\ handler_outcome = NoOutcome
  /\ process_event = NoEvent
  /\ process_first_iteration = TRUE
  /\ pf_matched = {0}
  /\ pf_count = 0
  /\ pf_exact = TRUE
  /\ ctx = {}
  /\ chain_outcome = NoChainOutcome
  /\ closed = FALSE
  /\ ctl_calls = <<>>
  /\ this_at_entry = NoHandler
  /\ steps_seen = <<>>
  /\ InitLife
  /\ driver = NewDriver

Init ==
  /\ InitApi
  /\ InitRun
  /\ InitNoChain
  /\ timeout = NoTimeout
  /\ pc = "client"

Next == ClientNext \/ PollNext \/ BueNext \/ AckNext \/ EnvNext

Spec == Init /\ [][Next]_vars

\* a TargetedStepper built on a fresh Connection; self.timeout is the `timeout`
\* every wait of the run is given
InitStepper ==
  /\ InitApi
  /\ InitRun
  /\ InitNoChain
  /\ timeout \in Timeouts
  /\ pc = "run_track"

NextStepper == RunNext \/ BueNext \/ AckNext \/ EnvNext

SpecStepper == InitStepper /\ [][NextStepper]_vars

\* a ComposableHandlerChain has been built on a fresh Connection, with
\* initial_tracking = Some(..); self.timeout is the `timeout` of the first wait
InitChainWith(chains) ==
  /\ InitApi
  /\ InitRun
  /\ handler_chain \in chains
  /\ handler_outcome = NoOutcome
  /\ process_event = NoEvent
  /\ process_first_iteration = TRUE
  /\ pf_matched = {0}
  /\ pf_count = 0
  /\ pf_exact = TRUE
  /\ ctx = {}
  /\ chain_outcome = NoChainOutcome
  /\ closed = FALSE
  /\ ctl_calls = <<>>
  /\ this_at_entry = NoHandler
  /\ steps_seen = <<>>
  /\ InitLife
  /\ driver = NewDriver

\* chains of closure handlers, and of a handler that consumes events before one
OrchestratorChains ==
  {<<NewClosureAdapterHandler, NewClosureAdapterHandler>>,
   <<NewSkipUntilPageFaultSequence(<<1>>, "Scattered"), NewClosureAdapterHandler>>}

InitChain ==
  /\ InitChainWith(OrchestratorChains)
  /\ timeout \in Timeouts
  /\ pc = "chain_track"

NextChain ==
  ChainRunNext \/ PfsNext \/ ClosureProcess \/ BueNext \/ AckNext \/ EnvNext

SpecChain == InitChain /\ [][NextChain]_vars

\* either orchestrator, on a fresh Connection
InitOrchestrator == InitStepper \/ InitChain

NextOrchestrator == RunNext \/ NextChain

SpecOrchestrator == InitOrchestrator /\ [][NextOrchestrator]_vars

\* expected sequences: none, one fault, a repeated address, two addresses, and
\* an address that recurs after another one
PfSequences == {<<>>, <<1>>, <<1, 1>>, <<1, 2>>, <<1, 2, 1>>}

\* a chain of one event-consuming handler
ConsumingChains ==
  {<<NewSkipUntilPageFaultSequence(q, m)>> : q \in PfSequences,
                                             m \in SequenceMatchingStrategy}
    \cup {<<NewSkipUntilNSingleSteps(n)>> : n \in 0..MaxWanted}

\* such a chain run without initial tracking, on a Connection opened with
\* error_on_multi_step = false, by a caller who does not abort: no wait fails
InitHandler ==
  /\ InitChainWith(ConsumingChains)
  /\ error_on_multi_step = FALSE
  /\ timeout = NoTimeout
  /\ pc = "chain_first_wait"

NextHandler ==
  \/ ChainFirstWait \/ ChainGotEvent \/ ChainProcess \/ ChainNext
  \/ ChainErrorShutdown \/ ChainDrop
  \/ PfsNext \/ NssNext
  \/ BueSpawn \/ BueAbort \/ BueTrigger \/ BueLock \/ BueCheck \/ BueUnlock
  \/ BueTimeout \/ BueDecode \/ BueFinalUnlock
  \/ AckNext
  \/ TriggerOk \/ DriverLock \/ DriverPost \/ DriverUnlock

SpecHandler == InitHandler /\ [][NextHandler]_vars

\* chains whose first handler waits for further events
TimedChains ==
  {<<NewSkipUntilPageFaultSequence(<<1>>, "Scattered"), NewClosureAdapterHandler>>,
   <<NewSkipUntilNSingleSteps(MaxWanted), NewClosureAdapterHandler>>}

\* ComposableHandlerChain::new(api, chain, initial_tracking, target_trigger, timeout)
\* followed by run(), with any timeout, beside a caller who may abort
InitTimed ==
  /\ InitChainWith(TimedChains)
  /\ timeout \in Timeouts
  /\ pc = "chain_track"

NextTimed == NextChain \/ NssNext

SpecTimed == InitTimed /\ [][NextTimed]_vars

\* target sets a SkipIfNotOnTargetGPAs is built with
TargetSets == SUBSET (1..MaxGpa)

\* a SkipIfNotOnTargetGPAs that a caller gives one event after another, as
\* TargetedStepper::run does for each event it received, until process fails;
\* the caller has tracked the target addresses (initially_tracked_gpas)
InitFilter ==
  /\ InitApi
  /\ InitRun
  /\ \E t \in TargetSets : handler_chain = <<NewSkipIfNotOnTargetGPAs(t)>>
  /\ handler_outcome = NoOutcome
  /\ process_event = NoEvent
  /\ process_first_iteration = TRUE
  /\ pf_matched = {0}
  /\ pf_count = 0
  /\ pf_exact = TRUE
  /\ ctx = {}
  /\ chain_outcome = NoChainOutcome
  /\ closed = FALSE
  /\ ctl_calls = <<>>
  /\ this_at_entry = NoHandler
  /\ steps_seen = <<>>
  /\ InitLife
  /\ driver = DriverState(FALSE, handler_chain[1].target_gpas)
  /\ timeout = NoTimeout
  /\ pc = "process_call"

NextFilter == ProcessCall \/ SkipIfNext \/ ProcessReturned

SpecFilter == InitFilter /\ [][NextFilter]_vars

\* a RetrackGPASet over any set of addresses, with or without an iteration cap,
\* given one event after another
InitRetrack ==
  /\ InitApi
  /\ InitRun
  /\ \E g \in SUBSET (1..MaxGpa) :
       \E m \in {None} \cup {Some(k) : k \in 0..MaxIterations} :
         handler_chain = <<NewRetrackGPASet(g, m)>>
  /\ handler_outcome = NoOutcome
  /\ process_event = NoEvent
  /\ process_first_iteration = TRUE
  /\ pf_matched = {0}
  /\ pf_count = 0
  /\ pf_exact = TRUE
  /\ ctx = {}
  /\ chain_outcome = NoChainOutcome
  /\ closed = FALSE
  /\ ctl_calls = <<>>
  /\ this_at_entry = NoHandler
  /\ steps_seen = <<>>
  /\ InitLife
  /\ driver = NewDriver
  /\ timeout = NoTimeout
  /\ pc = "process_call"

NextRetrack == ProcessCall \/ RetrackNext \/ ProcessReturned

SpecRetrack == InitRetrack /\ [][NextRetrack]_vars

\* a BuildStepHistogram or a StopAfterNSingleStepsHandler given one event after
\* another, at most MaxEvents step events among them
InitCounting ==
  /\ InitApi
  /\ InitRun
  /\ handler_chain \in {<<NewBuildStepHistogram>>}
                         \cup {<<NewStopAfterNSingleStepsHandler(n)>> : n \in 0..MaxWanted}
  /\ handler_outcome = NoOutcome
  /\ process_event = NoEvent
  /\ process_first_iteration = TRUE
  /\ pf_matched = {0}
  /\ pf_count = 0
  /\ pf_exact = TRUE
  /\ ctx = {}
  /\ chain_outcome = NoChainOutcome
  /\ closed = FALSE
  /\ ctl_calls = <<>>
  /\ this_at_entry = NoHandler
  /\ steps_seen = <<>>
  /\ InitLife
  /\ driver = NewDriver
  /\ timeout = NoTimeout
  /\ pc = "process_call"

NextCounting == ProcessCall \/ HistogramProcess \/ StopAfterProcess \/ ProcessReturned

SpecCounting == InitCounting /\ [][NextCounting]_vars

\* the chain of SingleStepNopSlideTest: a TargetedStepper with the handlers
\* [SkipIfNotOnTargetGPAs, BuildStepHistogram, StopAfterNSingleStepsHandler(n)]
\* on a Connection opened with error_on_multi_step = true, by a caller who does
\* not abort
InitPipeline ==
  /\ InitApi
  /\ InitRun
  /\ \E t \in TargetSets \ {{}} : \E n \in 0..MaxWanted :
       handler_chain = <<NewSkipIfNotOnTargetGPAs(t), NewBuildStepHistogram,
                         NewStopAfterNSingleStepsHandler(n)>>
  /\ handler_outcome = NoOutcome
  /\ process_event = NoEvent
  /\ process_first_iteration = TRUE
  /\ pf_matched = {0}
  /\ pf_count = 0
  /\ pf_exact = TRUE
  /\ ctx = {}
  /\ chain_outcome = NoChainOutcome
  /\ closed = FALSE
  /\ ctl_calls = <<>>
  /\ this_at_entry = NoHandler
  /\ steps_seen = <<>>
  /\ InitLife
  /\ driver = NewDriver
  /\ error_on_multi_step = TRUE
  /\ timeout = NoTimeout
  /\ pc = "run_track"

NextPipeline ==
  \/ RunTrackPage \/ RunFirstWait \/ RunGotEvent \/ RunProcess \/ RunMatch
  \/ RunReturnOk \/ RunAck \/ RunWait
  \/ SkipIfNext \/ HistogramProcess \/ StopAfterProcess
  \/ BueNext \/ AckNext
  \/ TriggerOk \/ DriverLock \/ DriverPost \/ DriverUnlock

SpecPipeline == InitPipeline /\ [][NextPipeline]_vars

\* SetupTeardownTest::run: no Connection is open when it starts
InitLifecycle ==
  /\ InitApi
  /\ InitRun
  /\ handler_chain = <<>>
  /\ handler_outcome = NoOutcome
  /\ process_event = NoEvent
  /\ process_first_iteration = TRUE
  /\ pf_matched = {0}
  /\ pf_count = 0
  /\ pf_exact = TRUE
  /\ ctx = {}
  /\ chain_outcome = NoChainOutcome
  /\ closed = TRUE
  /\ ctl_calls = <<>>
  /\ this_at_entry = NoHandler
  /\ steps_seen = <<>>
  /\ api_open = FALSE
  /\ connections = 0
  /\ repetition = 0
  /\ failed_ioctls = {}
  /\ second_new = "none"
  /\ driver = NewDriver
  /\ timeout = NoTimeout
  /\ pc = "test_loop"

NextLifecycle == TestLoop \/ TestNew \/ SecondNew \/ DropStopStepping \/ DropCloseApi

SpecLifecycle == InitLifecycle /\ [][NextLifecycle]_vars

\* a caller that waits and acknowledges, under the scheduling the code relies on:
\* the user thread keeps running (the poll loop never sleeps), wall-clock time
\* advances, the driver's critical sections end, and a spinning lock() gets the
\* lock when it is free again and again
NextLive == ClientWait \/ ClientAck \/ BueNext \/ AckNext \/ EnvNext

SpecLive ==
  /\ Init
  /\ [][NextLive]_vars
  /\ WF_vars(BueNext)
  /\ SF_vars(BueLock)
  /\ WF_vars(Tick)
  /\ WF_vars(DriverUnlock)

(* ================================ claims ================================ *)
\* the caller of the Connection has got `result` back from `api`
Returned(api) == pc = "client" /\ last_api = api /\ result.kind # "none"

\* C1: in a TargetedStepper run, ack_event is called exactly once for every
\* received event before the next block_untill_event call (or before the run
\* returns Ok), whether the chain ended with NEXT from every handler or with SKIP.
C1_AckExactlyOnce ==
  (pc = "run_wait" \/ (pc = "done" /\ run_result = "Ok")) => acks = 1

\* C2: block_untill_event decides by the order abort, trigger, event, timeout:
\* an abort queued at the call gives the abort error even with an event pending;
\* an event pending at the call ends the wait in its first iteration, never with
\* Timeout, and with that event unless the abort or trigger check fired first.
C2_PriorityOrder ==
  Returned("block_untill_event") =>
    /\ (abort_at_entry => result.kind = "Abort")
    /\ (have_at_entry => first_iteration /\ result.kind # "Timeout")
    /\ (have_at_entry /\ ~abort_at_entry /\ abort_queued = 0 /\ abort_connected
          /\ result.kind \notin {"Abort", "TriggerFailed"}
        => /\ result.kind \in {"Event", "MultiStep"}
           /\ result.event = Decode(shared_mem_region))

C2_Witness ==
  /\ Returned("block_untill_event")
  /\ abort_at_entry
  /\ have_at_entry
  /\ shared_mem_region.have_event = 1

\* C3: returning MultiStep leaves have_event = 1 and event_acked as it was;
\* have_event falls to 0 and event_acked rises to 1 only inside ack_event; and a
\* block_untill_event that returns an event while a MultiStep is unacknowledged
\* returns MultiStep with the same step event.
C3_MultiStepNoAck ==
  [][/\ (pc = "bue_multi_unlock" /\ pc' # pc
           => /\ result'.kind = "MultiStep"
              /\ shared_mem_region'.have_event = 1
              /\ shared_mem_region'.event_acked = shared_mem_region.event_acked)
     /\ (shared_mem_region.have_event = 1 /\ shared_mem_region'.have_event = 0
           => pc = "ack_clear_have")
     /\ (shared_mem_region.event_acked = 0 /\ shared_mem_region'.event_acked = 1
           => pc = "ack_set_acked")
     /\ (InBue /\ ~InBue' /\ multi_pending # NoEvent
           => /\ result'.kind # "Timeout"
              /\ result'.kind \in {"Event", "MultiStep"}
                   => /\ result'.kind = "MultiStep"
                      /\ result'.event = multi_pending)]_vars

\* a second wait, begun while a MultiStep is unacknowledged, is about to return
C3_Witness ==
  /\ pc = "bue_multi_unlock"
  /\ multi_pending = SevStepEvent(2)
  /\ decoded = multi_pending

\* C4: when block_untill_event returns the pending event, it returns MultiStep
\* carrying it exactly if error_on_multi_step is set and it is a step event with
\* retired_instructions > 1, and the plain event otherwise.
C4_MultiStepPolicy ==
  Returned("block_untill_event") /\ result.kind \in {"Event", "MultiStep"} =>
    /\ result.event = Decode(shared_mem_region)
    /\ (result.kind = "MultiStep") <=>
         /\ error_on_multi_step
         /\ shared_mem_region.event_type = "SEV_STEP_EVENT"
         /\ shared_mem_region.event_buffer > 1

C4_Witness ==
  /\ Returned("block_untill_event")
  /\ result.kind = "MultiStep"
  /\ result.event = SevStepEvent(2)

\* C5: once the trigger has completed with an error result, with no event
\* pending and no abort signalled, block_untill_event does not go on polling as
\* if the trigger had succeeded.
C5_TriggerErrorFails ==
  (InBue /\ trig = "err" /\ shared_mem_region.have_event = 0
     /\ abort_queued = 0 /\ abort_connected)
  => ~trigger_finished

\* C6: the user thread holds the mailbox lock only between a lock() and the
\* unlock() of the same function: not after any return of poll_event,
\* block_untill_event or ack_event, and not at the end of a poll iteration that
\* found no event.
C6_LockReleased ==
  /\ pc \in {"client", "bue_spawn", "bue_abort", "bue_trigger", "bue_lock",
             "bue_timeout", "poll_lock", "ack_lock"}
       => "user" \notin holders
  /\ pc = "client" /\ drv = "idle" => shared_mem_region.spinlock = 1

C6_Witness ==
  /\ Returned("block_untill_event")
  /\ result.kind = "MultiStep"
  /\ shared_mem_region.spinlock = 1

\* C7: the user thread and the driver never hold the mailbox lock together, and
\* the user thread reads have_event, event_type and the payload and writes
\* event_acked and have_event only while it holds the lock.
C7_MutualExclusion ==
  /\ Cardinality(holders) <= 1
  /\ holders # {} => shared_mem_region.spinlock = 0
  /\ pc \in {"poll_check", "poll_decode", "bue_check", "bue_decode",
             "ack_set_acked", "ack_clear_have"}
       => holders = {"user"}

C7_Witness ==
  /\ pc = "ack_lock"
  /\ drv = "locked"
  /\ shared_mem_region.have_event = 1

C9_RunOrder ==
  /\ waits >= 1 => track_idx = NumInitialGpas
  /\ track_idx < NumInitialGpas => /\ trig = "none"
                                   /\ waits = 0
                                   /\ pc \in {"run_track", "done"}
  /\ (target_trigger = "caller") <=> (waits = 1)
  /\ waits = 1 /\ InBue /\ pc # "bue_spawn" => trig # "none"
  /\ pc \in {"run_handler", "run_ack", "run_wait", "run_return_ok"} => waits >= 1

C9_Witness ==
  /\ waits = 2
  /\ target_trigger = "noop"
  /\ trig = "running"
  /\ track_idx = NumInitialGpas

\* C10: the handlers are run in chain order, each at most once per event; after
\* a SKIP no later handler runs for that event, the event is acknowledged, and
\* the run goes on to wait for the next event, which starts at the first handler.
C10_ChainOrder ==
  /\ Len(invoked) <= NumHandlers
  /\ \A i \in 1..Len(invoked) : invoked[i] = i
  /\ pc = "run_handler" => handler_idx = Len(invoked) + 1 /\ ~skipped
  /\ pc = "run_wait" => acks >= 1 /\ last_api = "ack_event"
  /\ skipped /\ pc = "done"
       => /\ run_result = "Err"
          /\ last_api = "block_untill_event"
          /\ result.kind # "Event"

C10_Witness ==
  /\ skipped
  /\ Len(invoked) < NumHandlers
  /\ pc = "run_got_event"
  /\ result.kind = "Event"

AckLabels == {"ack_lock", "ack_set_acked", "ack_clear_have", "ack_unlock"}

\* the mailbox holds event `e`, posted and not acknowledged
Pending(e) ==
  /\ shared_mem_region.have_event = 1
  /\ shared_mem_region.event_acked = 0
  /\ Decode(shared_mem_region) = e

\* the handlers invoked for the current event are exactly the first n of the chain
InvokedUpTo(n) == invoked = [i \in 1..n |-> i]

\* C11: when a handler of a TargetedStepper chain returns SHUTDOWN, the event is
\* acknowledged exactly once, no later handler is invoked for it, no further
\* block_untill_event is issued, and run returns success.
C11_ShutdownAcksOnce ==
  /\ [](stack = <<"run_return_ok">> \/ pc = "run_return_ok"
          \/ (pc = "done" /\ run_result = "Ok")
        => /\ acks = 1
           /\ InvokedUpTo(handler_idx)
           /\ ~skipped
           /\ ~InBue
           /\ pc \notin AckLabels => last_api = "ack_event")
  /\ [][pc = "run_return_ok" /\ pc' # pc => pc' = "done" /\ run_result' = "Ok"]_vars
  /\ [][run_result' = "Ok" /\ run_result # "Ok" => pc = "run_return_ok"]_vars

C11_Witness ==
  /\ pc = "done"
  /\ run_result = "Ok"
  /\ handler_idx < NumHandlers
  /\ shared_mem_region.have_event = 0

\* a wait of the orchestrator has failed, or a handler of the chain has failed or
\* returned ErrorShutdown, and the orchestrator is about to look at it
ErrorAtHand ==
  \/ (pc \in {"run_got_event", "chain_got_event"} /\ result.kind # "Event")
  \/ (pc = "chain_match" /\ handler_outcome.kind = "Err")
  \/ (/\ pc = "chain_match"
      /\ handler_outcome.kind = "Ok"
      /\ handler_outcome.next_action = "ErrorShutdown")

\* C12: in both orchestrators a handler that returns ErrorShutdown or fails, a
\* failing block_untill_event and a failing control call make the run return an
\* error at once: no handler is invoked and no wait or acknowledgment is issued
\* after it, and the event being processed is left unacknowledged.
C12_ErrorReturnsAtOnce ==
  /\ [](run_result = "Err"
        => /\ pc \in {"done", "chain_drop"}
           /\ result.kind = "Event"
                => /\ acks = 0
                   /\ last_api = "block_untill_event"
                   /\ Pending(result.event))
  /\ [][run_result = "Err"
          => UNCHANGED <<run_result, waits, acks, invoked>>]_vars
  /\ [][ErrorAtHand /\ pc' # pc
        => /\ run_result' = "Err"
           /\ UNCHANGED <<waits, acks, invoked>>]_vars

C12_Witness ==
  /\ pc = "done"
  /\ run_result = "Err"
  /\ handler_outcome.kind = "Ok"
  /\ handler_outcome.next_action = "ErrorShutdown"
  /\ handler_idx = 2
  /\ Pending(event)

\* C13: a ComposableHandlerChain run makes one wait of its own, then invokes the
\* handlers in chain order, each at most once; handler i+1 is given the
\* pending_event handler i returned; when all return NEXT the run returns the
\* last pending_event and the context; the orchestrator never calls ack_event.
C13_ChainOnce ==
  /\ [](/\ \E n \in 0..Len(handler_chain) : InvokedUpTo(n)
        /\ pc \in {"chain_drop", "done"} /\ run_result = "Ok"
             /\ handler_outcome.next_action = "NEXT"
           => /\ InvokedUpTo(Len(handler_chain))
              /\ chain_outcome =
                   ComposableHandlerChainOutcome(handler_outcome.pending_event, ctx))
  /\ [][pc = "chain_handler" /\ pc' # pc
        => /\ process_event' = event
           /\ handler_idx > 1 => event = handler_outcome.pending_event]_vars
  /\ [][pc' = "bue_spawn" /\ pc # "bue_spawn"
        => \/ pc = "chain_first_wait" /\ waits = 0 /\ invoked = <<>>
           \/ pc \in {"pfs_wait", "nss_wait"}]_vars
  /\ [][pc' = "ack_lock" /\ pc # "ack_lock" => pc \in {"pfs_loop", "nss_loop"}]_vars

C13_Witness ==
  /\ pc = "done"
  /\ run_result = "Ok"
  /\ handler_outcome.next_action = "NEXT"
  /\ waits = 2
  /\ chain_outcome.pending_event = PageFaultEvent(1)
  /\ chain_outcome.produced_ctx = {2}

\* C14: when a handler of a ComposableHandlerChain returns SHUTDOWN, run returns
\* that handler's pending_event and the context, invokes no later handler, and
\* leaves the pending event unacknowledged (have_event = 1 at the return).
C14_ShutdownKeepsPending ==
  pc \in {"chain_drop", "done"} /\ handler_outcome.kind = "Ok"
    /\ handler_outcome.next_action = "SHUTDOWN"
  => /\ run_result = "Ok"
     /\ chain_outcome = ComposableHandlerChainOutcome(handler_outcome.pending_event, ctx)
     /\ InvokedUpTo(handler_idx)
     /\ acks = 0
     /\ Pending(chain_outcome.pending_event)

C14_Witness ==
  /\ pc = "done"
  /\ handler_outcome.next_action = "SHUTDOWN"
  /\ handler_idx = 1
  /\ Len(handler_chain) = 2
  /\ shared_mem_region.have_event = 1

\* C15: after a ComposableHandlerChain run has returned on SHUTDOWN, the
\* Connection it ran against is still open (no stop-stepping, no close).
C15_OpenAfterShutdown ==
  pc = "done" /\ run_result = "Ok" /\ handler_outcome.next_action = "SHUTDOWN"
  => ~closed

\* C16: when a handler of a ComposableHandlerChain returns SKIP, the run raises
\* an implementation error (it panics): it does not go on to the next handler
\* and returns no outcome.
C16_SkipPanics ==
  handler_outcome.kind = "Ok" /\ handler_outcome.next_action = "SKIP"
  => /\ pc \in {"chain_match", "chain_drop", "done"}
     /\ InvokedUpTo(handler_idx)
     /\ chain_outcome = NoChainOutcome
     /\ pc # "chain_match" => run_result = "Panic"

C16_Witness ==
  /\ pc = "done"
  /\ run_result = "Panic"
  /\ skipped
  /\ handler_idx = 1
  /\ Len(handler_chain) = 2

\* C17: whenever SkipUntilPageFaultSequence or SkipUntilNSingleSteps returns an
\* outcome, the pending_event is the event received last and is unacknowledged;
\* inside process every ack_event is followed at once by a wait, so each earlier
\* event was acknowledged exactly once.
C17_PendingUnacked ==
  /\ [](/\ acks <= 1
        /\ pc \in {"pfs_loop", "pfs_match", "nss_loop", "nss_match", "chain_match"}
             => /\ acks = 0
                /\ result.kind = "Event"
                /\ last_api = "block_untill_event"
                /\ process_event = result.event
                /\ Pending(process_event)
        /\ pc \in {"pfs_wait", "nss_wait"} \/ (InBue /\ invoked # <<>>)
             => acks = 1
        /\ pc \in {"pfs_wait", "nss_wait"} => last_api = "ack_event"
        /\ pc = "chain_match"
             => /\ handler_outcome.kind = "Ok"
                /\ handler_outcome.next_action \in {"NEXT", "ErrorShutdown"}
                /\ handler_outcome.pending_event = process_event)
  /\ [][pc = "ack_unlock" /\ pc' # pc => pc' \in {"pfs_wait", "nss_wait"}]_vars
  /\ [][pc' # pc /\ pc \in {"pfs_wait", "nss_wait"}
        => /\ pc' = "bue_spawn"
           /\ waits' = Bump(waits)]_vars

C17_Witness ==
  /\ pc = "chain_match"
  /\ this.kind = "SkipUntilNSingleSteps"
  /\ handler_outcome.next_action = "ErrorShutdown"
  /\ this.consecutive_zero_steps = ZERO_STEP_ABORT_THRESH + 1
  /\ Pending(handler_outcome.pending_event)

\* C18: SkipIfNotOnTargetGPAs starts OffTarget. For a page fault: OffTarget and
\* a non-target address give SKIP and stay OffTarget; OffTarget and a target
\* address move to OnTarget and give NEXT; OnTarget and a non-target address
\* move to OffTarget and give SKIP; OnTarget and a target address is an error.
\* A step event gives NEXT in either state and changes nothing. (A transition
\* whose control call fails returns that error and leaves the state as it was.)
C18_TwoStateAutomaton ==
  /\ this_at_entry = NoHandler /\ handler_chain # <<>>
       /\ this.kind = "SkipIfNotOnTargetGPAs"
     => ~this.on_victim_pages
  /\ pc = "process_returned" /\ this.kind = "SkipIfNotOnTargetGPAs"
     => LET was_on == this_at_entry.on_victim_pages
            on_target == process_event.faulted_gpa \in this.target_gpas
            failed_call == handler_outcome.kind = "Err" /\ ctl_calls # <<>>
        IN  /\ this.target_gpas = this_at_entry.target_gpas
            /\ handler_outcome.kind \in {"Ok", "Err"}
            /\ IF process_event.kind = "StepEvent"
                 THEN /\ handler_outcome = OkAction("NEXT")
                      /\ this = this_at_entry
                      /\ ctl_calls = <<>>
                 ELSE IF failed_call
                   THEN this = this_at_entry
                   ELSE CASE ~was_on /\ ~on_target ->
                               /\ handler_outcome = OkAction("SKIP")
                               /\ ~this.on_victim_pages
                          [] ~was_on /\ on_target ->
                               /\ handler_outcome = OkAction("NEXT")
                               /\ this.on_victim_pages
                          [] was_on /\ ~on_target ->
                               /\ handler_outcome = OkAction("SKIP")
                               /\ ~this.on_victim_pages
                          [] was_on /\ on_target ->
                               /\ handler_outcome = ProcessFailed
                               /\ this = this_at_entry

C18_Witness ==
  /\ pc = "process_returned"
  /\ this_at_entry.on_victim_pages
  /\ process_event.kind = "PageFaultEvent"
  /\ process_event.faulted_gpa \notin this.target_gpas
  /\ handler_outcome = OkAction("SKIP")
  /\ ~this.on_victim_pages
  /\ Cardinality(this.target_gpas) = 1

\* the running handler is a SkipUntilPageFaultSequence with policy m and a
\* non-empty expected sequence
PfsWith(m) ==
  /\ invoked # <<>>
  /\ this.kind = "SkipUntilPageFaultSequence"
  /\ this.matching = m
  /\ this.pf_sequence # <<>>

\* C19: under Scattered, for a non-empty expected sequence, the handler returns
\* NEXT exactly at the first page fault at which the sequence is a subsequence
\* of the page faults seen so far; a page fault at another address leaves the
\* progress unchanged and never causes an error.
C19_Scattered ==
  /\ [](PfsWith("Scattered")
        => /\ (Len(this.pf_sequence) \in pf_matched)
                <=> (handler_outcome.kind = "Ok" /\ handler_outcome.next_action = "NEXT")
           /\ handler_outcome.kind = "Ok"
                => /\ handler_outcome.next_action = "NEXT"
                   /\ handler_outcome.pending_event =
                        PageFaultEvent(this.pf_sequence[Len(this.pf_sequence)])
           /\ \A k \in pf_matched : k <= this.idx_next_pf)
  /\ [][PfsWith("Scattered") /\ pc = "pfs_match"
          /\ process_event.kind = "PageFaultEvent"
          /\ process_event.faulted_gpa # this.pf_sequence[this.idx_next_pf + 1]
        => UNCHANGED <<handler_chain, handler_outcome>>]_vars

C19_Witness ==
  /\ PfsWith("Scattered")
  /\ this.pf_sequence = <<1, 2, 1>>
  /\ handler_outcome.next_action = "NEXT"
  /\ pf_count > Len(this.pf_sequence)
  /\ ~pf_exact

\* C20: under StrictWithAbort, for a non-empty expected sequence, the handler
\* returns ErrorShutdown at the first page fault whose address differs from the
\* next expected one, with that fault pending and unacknowledged, and returns
\* NEXT only when the page faults seen are exactly the expected sequence.
C20_StrictWithAbort ==
  PfsWith("StrictWithAbort")
  => /\ (handler_outcome.kind = "Ok" /\ handler_outcome.next_action = "NEXT")
          <=> (pf_exact /\ pf_count = Len(this.pf_sequence))
     /\ (handler_outcome.kind = "Ok" /\ handler_outcome.next_action = "ErrorShutdown")
          <=> ~pf_exact
     /\ ~pf_exact
          => /\ handler_outcome.pending_event.kind = "PageFaultEvent"
             /\ handler_outcome.pending_event.faulted_gpa # this.pf_sequence[pf_count]
             /\ this.idx_next_pf = pf_count - 1
             /\ pc \in {"chain_match", "chain_drop", "done"}
             /\ Pending(handler_outcome.pending_event)

C20_Witness ==
  /\ PfsWith("StrictWithAbort")
  /\ handler_outcome.next_action = "ErrorShutdown"
  /\ this.idx_next_pf = 2
  /\ pc = "done"

\* C21: under StrictWithReset, for a non-empty expected sequence, a page fault
\* whose address differs from the next expected element sets the progress back
\* to 0 without an error and the handler goes on; a fault at the expected
\* address advances the progress by one; the handler returns NEXT exactly when
\* the progress has reached the length of the sequence, with that fault pending.
C21_StrictWithReset ==
  /\ [](PfsWith("StrictWithReset")
        => /\ (handler_outcome.kind = "Ok" /\ handler_outcome.next_action = "NEXT")
                <=> this.idx_next_pf = Len(this.pf_sequence)
           /\ handler_outcome.kind = "Ok"
                => /\ handler_outcome.next_action = "NEXT"
                   /\ handler_outcome.pending_event =
                        PageFaultEvent(this.pf_sequence[Len(this.pf_sequence)])
           /\ run_result # "Panic")
  /\ [][PfsWith("StrictWithReset") /\ pc = "pfs_match" /\ pc' # pc
          /\ process_event.kind = "PageFaultEvent"
        => IF process_event.faulted_gpa = this.pf_sequence[this.idx_next_pf + 1]
             THEN handler_chain'[handler_idx].idx_next_pf = this.idx_next_pf + 1
             ELSE /\ handler_chain'[handler_idx].idx_next_pf = 0
                  /\ pc' = "pfs_loop"
                  /\ UNCHANGED <<handler_outcome, run_result>>]_vars

C21_Witness ==
  /\ PfsWith("StrictWithReset")
  /\ this.pf_sequence = <<1, 2, 1>>
  /\ handler_outcome.next_action = "NEXT"
  /\ ~pf_exact
  /\ pc = "done"

\* the running handler is a SkipUntilNSingleSteps built with N >= 1
NssWith ==
  /\ invoked # <<>>
  /\ this.kind = "SkipUntilNSingleSteps"
  /\ this.wanted_step_count >= 1

\* C22: SkipUntilNSingleSteps built with N >= 1 returns NEXT exactly when the
\* N-th step event with retired_instructions = 1 has been received, with that
\* event pending: a step event with retired_instructions = 1 advances the count
\* by one, and a step event with any other value, or a page fault, leaves it.
C22_CountsSingleSteps ==
  /\ [](NssWith
        => (handler_outcome.kind = "Ok" /\ handler_outcome.next_action = "NEXT")
             <=> this.step_counter = this.wanted_step_count)
  /\ [][NssWith /\ pc = "nss_match" /\ pc' # pc
        => LET counted == /\ process_event.kind = "StepEvent"
                          /\ process_event.retired_instructions = 1
           IN  /\ handler_chain'[handler_idx].step_counter =
                    this.step_counter + (IF counted THEN 1 ELSE 0)
               /\ ~counted => UNCHANGED handler_outcome \/ handler_outcome'.next_action # "NEXT"
               /\ handler_outcome'.next_action = "NEXT"
                    => handler_outcome'.pending_event = process_event]_vars

\* a RetrackGPASet's process has just returned
RetrackReturned == pc = "process_returned" /\ this.kind = "RetrackGPASet"

\* C23: RetrackGPASet has at most one address pending, the address of the last
\* page fault if it is in the set. track_page(g) is issued exactly once for a
\* pending g, while the next page fault (at another address) is processed, and
\* g is then no longer pending; a page fault with nothing pending and a step
\* event issue no control call, and a step event changes nothing.
C23_RetrackDelayed ==
  RetrackReturned
  => LET was == this_at_entry.gpa_for_retrack
         now == this.gpa_for_retrack
     IN  /\ now \in {None} \cup {Some(g) : g \in this.gpas}
         /\ IF process_event.kind = "StepEvent"
              THEN /\ ctl_calls = <<>>
                   /\ this = this_at_entry
                   /\ handler_outcome = OkAction("NEXT")
              ELSE /\ ctl_calls =
                        IF was.some /\ was.v # process_event.faulted_gpa
                          THEN <<CtlCall("track_page", {was.v})>> ELSE <<>>
                   /\ handler_outcome.kind = "Ok"
                        => now = IF process_event.faulted_gpa \in this.gpas
                                   THEN Some(process_event.faulted_gpa) ELSE None
                   /\ handler_outcome.kind = "Err" => this = this_at_entry

C23_Witness ==
  /\ RetrackReturned
  /\ handler_outcome = OkAction("NEXT")
  /\ this_at_entry.gpa_for_retrack = Some(1)
  /\ ctl_calls = <<CtlCall("track_page", {1})>>
  /\ process_event = PageFaultEvent(2)
  /\ this.gpa_for_retrack = Some(2)

\* C24: a page fault at the address that is pending retrack makes process fail
\* with an error, without a track_page call and without a change of the handler.
C24_SecondFaultFails ==
  /\ RetrackReturned
  /\ process_event.kind = "PageFaultEvent"
  /\ this_at_entry.gpa_for_retrack = Some(process_event.faulted_gpa)
  => /\ handler_outcome = ProcessFailed
     /\ ctl_calls = <<>>
     /\ this = this_at_entry

C24_Witness ==
  /\ RetrackReturned
  /\ process_event = PageFaultEvent(1)
  /\ this_at_entry.gpa_for_retrack = Some(1)
  /\ this_at_entry.iteration_count = 1
  /\ handler_outcome = ProcessFailed

\* the number of entries of a sequence of step sizes that satisfy a test
CountSteps(sizes, Test(_)) == Cardinality({i \in 1..Len(sizes) : Test(sizes[i])})

AtLeastOne(k) == k >= 1

\* a process call of the handler has returned (or none was made yet)
CountingReturned == pc \in {"process_call", "process_returned", "done"}

C27_HistogramCounts ==
  this.kind = "BuildStepHistogram" /\ CountingReturned =>
    /\ DOMAIN this.step_histogram = {steps_seen[i] : i \in 1..Len(steps_seen)}
    /\ \A k \in DOMAIN this.step_histogram :
         this.step_histogram[k] = Cardinality({i \in 1..Len(steps_seen) : steps_seen[i] = k})
    /\ pc = "process_returned" =>
         /\ handler_outcome = OkAction("NEXT")
         /\ process_event.kind = "PageFaultEvent" => this = this_at_entry

C27_Witness ==
  /\ this.kind = "BuildStepHistogram"
  /\ pc = "process_returned"
  /\ steps_seen = <<1, 1, 0, 1, 2>>
  /\ this.step_histogram = [k \in {0, 1, 2} |-> IF k = 1 THEN 3 ELSE 1]

\* the handlers of the chain of SpecPipeline
Histogram == handler_chain[2]
StopAfter == handler_chain[3]

\* C26: when a TargetedStepper run with the chain [SkipIfNotOnTargetGPAs,
\* BuildStepHistogram, StopAfterNSingleStepsHandler(n)] has returned Ok, exactly
\* n step events with retired_instructions >= 1 were counted (n >= 1), and
\* the histogram's entry for step size 1 is at least n
C26_StopsAfterExactlyN ==
  /\ pc = "done" /\ run_result = "Ok"
  /\ Len(handler_chain) = 3 /\ StopAfter.abort_thresh >= 1
  => /\ CountSteps(steps_seen, AtLeastOne) = StopAfter.abort_thresh
     /\ StopAfter.step_counter = StopAfter.abort_thresh
     /\ 1 \in DOMAIN Histogram.step_histogram
     /\ Histogram.step_histogram[1] >= StopAfter.abort_thresh

\* a release of the Connection has been completed and no later one has begun
Released == pc \in {"test_loop", "test_new", "done"} /\ repetition >= 1

\* C28: a release issues stop_stepping first and close_api second, each once,
\* whether or not stop_stepping failed; no step of the release ends the
\* caller's loop or sets its result
C28_DropOrder ==
  /\ [](pc = "drop_close" => ctl_calls = <<CtlCall("stop_stepping", {})>>)
  /\ [](Released => ctl_calls = <<CtlCall("stop_stepping", {}), CtlCall("close_api", {})>>)
  /\ [][pc' # pc /\ pc = "test_live" => pc' = "drop_close" /\ run_result' = run_result]_vars
  /\ [][pc' # pc /\ pc = "drop_close" => pc' = "test_loop" /\ run_result' = run_result]_vars

C28_Witness ==
  /\ Released
  /\ failed_ioctls = {"stop_stepping", "close_api"}
  /\ ctl_calls = <<CtlCall("stop_stepping", {}), CtlCall("close_api", {})>>
  /\ run_result = "running"

\* C29: with a device that opens and close_api calls that succeed, no open of
\* the repetition fails; at most one Connection is alive at any time; and a
\* SevStep::new made while a Connection is alive returns an error and builds none
C29_OneConnection ==
  /\ connections <= 1
  /\ second_new # "Ok"
  /\ failed_ioctls \cap {"open", "close_api"} = {} =>
       /\ run_result # "Err"
       /\ api_open = (connections = 1)
       /\ pc = "test_new" => InitApiAccepted

C29_Witness ==
  /\ pc = "done"
  /\ run_result = "Ok"
  /\ repetition = MaxRepetitions
  /\ second_new = "Err"
  /\ failed_ioctls = {"init_api"}
  /\ connections = 0

\* C30: in a TargetedStepper run, an ack_event that clears a pending event is
\* the first one since the wait that returned that event: no event the driver
\* posted after an acknowledgment is cleared before a wait has returned it
C30_NoEventLost ==
  [][shared_mem_region.have_event = 1 /\ shared_mem_region'.have_event = 0
       => acks = 1]_vars

\* C31: the abort check of a wait returns the abort error exactly when a signal
\* is queued, and then takes it out of the channel; nothing but that check makes
\* a wait fail with the abort error, and nothing but the sender queues a signal:
\* a signal aborts the wait that reads it and no later one
C31_AbortConsumed ==
  /\ [][pc' # pc /\ pc = "bue_abort"
          => /\ (result'.kind = "Abort") = (abort_queued > 0)
             /\ abort_queued > 0 => abort_queued' = 0]_vars
  /\ [][result'.kind = "Abort" /\ result.kind # "Abort" => pc = "bue_abort"]_vars
  /\ [][abort_queued' > abort_queued => pc' = pc /\ result' = result]_vars

C31_Witness ==
  /\ Returned("block_untill_event")
  /\ result.kind = "Abort"
  /\ abort_queued = 0
  /\ abort_connected

\* the two mailbox words of the acknowledgment protocol
MailboxFlags == <<shared_mem_region.have_event, shared_mem_region.event_acked>>

\* C32: a step of the user thread changes have_event or event_acked only inside
\* ack_event, which ends with have_event = 0 and event_acked = 1; poll_event
\* returns nothing exactly when have_event = 0 and otherwise the pending event;
\* and a pending event stays as it is until it is acknowledged
C32_MailboxFrame ==
  /\ [][pc' # pc /\ MailboxFlags' # MailboxFlags
          => pc \in {"ack_set_acked", "ack_clear_have"}]_vars
  /\ [](pc = "ack_unlock" => MailboxFlags = <<0, 1>>)
  /\ [][pc' # pc /\ pc \in {"poll_unlock_none", "poll_unlock_some"}
          => /\ (result'.kind = "Nothing") = (shared_mem_region'.have_event = 0)
             /\ result'.kind # "Nothing"
                  => /\ result'.kind = "Event"
                     /\ result'.event = Decode(shared_mem_region')]_vars
  /\ [][shared_mem_region'.have_event = 1 /\ shared_mem_region.have_event = 1
          => Decode(shared_mem_region') = Decode(shared_mem_region)]_vars

C32_Witness ==
  /\ Returned("poll_event")
  /\ result.kind = "Event"
  /\ result.event = Decode(shared_mem_region)
  /\ MailboxFlags = <<1, 0>>

\* the control calls of one transition: `first`, then `each` once for every
\* target address in some order, or with `last` after them when there is one
Transition(first, each, last) ==
  LET n == Cardinality(this.target_gpas)
      head == Len(first)
  IN /\ Len(ctl_calls) = head + n + Len(last)
     /\ SubSeq(ctl_calls, 1, head) = first
     /\ {ctl_calls[i] : i \in (head + 1)..(head + n)}
          = {CtlCall(each, {x}) : x \in this.target_gpas}
     /\ SubSeq(ctl_calls, head + n + 1, Len(ctl_calls)) = last

\* C33: a process call of SkipIfNotOnTargetGPAs that entered the target pages
\* issued track_all_pages, untrack_page once per target address, then
\* start_stepping on the target addresses; one that left them issued
\* stop_stepping, untrack_all_pages, then track_page once per target address;
\* one that returned a next action without a transition issued none
C33_ControlCallOrder ==
  pc = "process_returned" /\ this.kind = "SkipIfNotOnTargetGPAs" =>
    LET was_on == this_at_entry.on_victim_pages
        is_on == this.on_victim_pages
    IN /\ ~was_on /\ is_on =>
            Transition(<<CtlCall("track_all_pages", {})>>, "untrack_page",
                       <<CtlCall("start_stepping", this.target_gpas)>>)
       /\ was_on /\ ~is_on =>
            Transition(<<CtlCall("stop_stepping", {}), CtlCall("untrack_all_pages", {})>>,
                       "track_page", <<>>)
       /\ was_on = is_on /\ handler_outcome.kind = "Ok" => ctl_calls = <<>>

C33_Witness ==
  /\ pc = "process_returned"
  /\ this.kind = "SkipIfNotOnTargetGPAs"
  /\ this.target_gpas = {1, 2}
  /\ ~this_at_entry.on_victim_pages
  /\ this.on_victim_pages
  /\ Len(ctl_calls) = 4

\* the driver after the control calls of `calls` have been applied in order
RECURSIVE ApplyCalls(_, _)
ApplyCalls(d, calls) ==
  IF calls = <<>> THEN d ELSE ApplyCalls(ApplyCall(d, Head(calls)), Tail(calls))

\* the driver as SkipIfNotOnTargetGPAs object h leaves it between two events
Settled(h) ==
  DriverState(h.on_victim_pages,
              IF h.on_victim_pages THEN (1..MaxGpa) \ h.target_gpas ELSE h.target_gpas)

\* C34: between the events that SkipIfNotOnTargetGPAs processed without error,
\* stepping is armed in the driver exactly when the handler is OnTarget, and
\* while it is OffTarget the target addresses are tracked; when a control call
\* of a transition fails, the handler's flag is as it was at entry while the
\* driver has the effects of the calls that preceded the failed one
C34_DriverMatchesState ==
  this.kind = "SkipIfNotOnTargetGPAs" =>
    /\ pc = "process_call" \/ (pc = "process_returned" /\ handler_outcome.kind = "Ok")
         => /\ driver.stepping = this.on_victim_pages
            /\ ~this.on_victim_pages => this.target_gpas \subseteq driver.tracked
            /\ driver = Settled(this)
    /\ pc = "process_returned" /\ handler_outcome.kind = "Err" /\ ctl_calls # <<>>
         => /\ this.on_victim_pages = this_at_entry.on_victim_pages
            /\ driver = ApplyCalls(Settled(this_at_entry),
                                   SubSeq(ctl_calls, 1, Len(ctl_calls) - 1))

C34_Witness ==
  /\ this.kind = "SkipIfNotOnTargetGPAs"
  /\ pc = "process_returned"
  /\ handler_outcome.kind = "Err"
  /\ this.on_victim_pages
  /\ ctl_calls = <<CtlCall("stop_stepping", {}), CtlCall("untrack_all_pages", {})>>
  /\ ~driver.stepping

C37_ResetDiscards ==
  /\ [][pc' # pc /\ pc = "pfs_match" /\ PfsWith("StrictWithReset")
          /\ process_event.kind = "PageFaultEvent"
          /\ process_event.faulted_gpa # this.pf_sequence[this.idx_next_pf + 1]
        => /\ this'.idx_next_pf = 0
           /\ pc' = "pfs_loop"
           /\ UNCHANGED handler_outcome]_vars
  /\ [](PfsWith("StrictWithReset") /\ Len(this.pf_sequence) >= 2
        => LET seq == this.pf_sequence
               fresh == [this EXCEPT !.idx_next_pf = 0]
           IN /\ seq[1] # seq[2]
                   => LET r == PfsFeed(fresh, <<seq[1]>> \o seq)
                      IN r.ends = "continue" /\ r.h.idx_next_pf < Len(seq)
              /\ (/\ pc = "pfs_loop"
                  /\ ~process_first_iteration
                  /\ process_event = PageFaultEvent(seq[1])
                  /\ this.idx_next_pf = 0)
                   => PfsFeed(this, Tail(seq)).ends = "continue")

C37_Witness ==
  /\ PfsWith("StrictWithReset")
  /\ this.pf_sequence = <<1, 2, 1>>
  /\ pc = "pfs_loop"
  /\ ~process_first_iteration
  /\ process_event = PageFaultEvent(1)
  /\ this.idx_next_pf = 0
  /\ pf_count = 2
  /\ 1 \in pf_matched

\* the user thread is inside a wait that a SkipUntilPageFaultSequence or a
\* SkipUntilNSingleSteps issued
HandlerWaiting ==
  InBue /\ stack # <<>> /\ Head(stack) \in {"pfs_got_event", "nss_got_event"}

\* C38 as stated: the waits issued inside SkipUntilPageFaultSequence and
\* SkipUntilNSingleSteps have no timeout, Timeout is returned by the first
\* wait of the run only, and a handler's wait that returns without an event
\* returns the abort-signal error
C38_OnlyAbortSignal ==
  /\ [](HandlerWaiting => timeout = NoTimeout)
  /\ [](result.kind = "Timeout" => waits = 1 /\ invoked = <<>>)
  /\ [][pc' # pc /\ HandlerWaiting /\ ~InBue' /\ result'.kind \notin {"Event", "MultiStep"}
        => result'.kind = "Abort"]_vars

\* C38: the waits issued inside SkipUntilPageFaultSequence and
\* SkipUntilNSingleSteps have no timeout and a trigger that does nothing,
\* Timeout is returned by the first wait of the run only, and a handler's wait
\* that returns without an event returns the abort-signal error or, when the
\* sender of the abort channel was dropped, the abort-channel error
C38_FirstWaitOnly ==
  /\ [](HandlerWaiting => timeout = NoTimeout /\ target_trigger = "noop")
  /\ [](result.kind = "Timeout" => waits = 1 /\ invoked = <<>>)
  /\ [][pc' # pc /\ HandlerWaiting /\ ~InBue' /\ result'.kind \notin {"Event", "MultiStep"}
        => /\ result'.kind \in {"Abort", "AbortChannelError"}
           /\ result'.kind = "AbortChannelError" => ~abort_connected]_vars

C38_Witness ==
  /\ pc = "nss_got_event"
  /\ this.kind = "SkipUntilNSingleSteps"
  /\ result.kind = "Abort"
  /\ waits = 2
  /\ shared_mem_region.have_event = 0

====
